---- MODULE Spec2Model ----
(***************************************************************************)
(* Model of the résumé feedback pipeline of FUTURE_ML_03:                  *)
(*   - the Puter store's ai.feedback resolver (primary chat call, Ollama   *)
(*     fallback) with ollamaFeedback and toAIResponseFromJSON              *)
(*     (src/app/components/FileUploader.tsx),                              *)
(*   - the upload page's handleAnalyze, pickUploaded and                   *)
(*     extractFeedbackText (src/unnamed/part_000).                         *)
(*                                                                         *)
(* JavaScript values are tagged records.  A JavaScript string is a         *)
(* sequence of tokens (its text, already split into lexical pieces), so    *)
(* that JSON.parse and JSON.stringify are computed on text and a round     *)
(* trip through them is not the identity by construction.  Objects are     *)
(* maps from keys to values: the order of an object's keys is not          *)
(* modelled, and JSON.stringify emits the keys of a key set in one fixed    *)
(* order.                                                                  *)
(*                                                                         *)
(* One action is one run-to-completion segment of JavaScript: the code     *)
(* between two awaits, together with the outcome of the awaited call.      *)
(***************************************************************************)
EXTENDS Integers, Sequences, FiniteSets, TLC

(***************************************************************************)
(* JavaScript values                                                       *)
(***************************************************************************)
Undef == [t |-> "undef"]
JNull == [t |-> "null"]
JBool(b) == [t |-> "bool", b |-> b]
JNum(n) == [t |-> "num", n |-> n]
JStr(s) == [t |-> "str", s |-> s]
JArr(a) == [t |-> "arr", a |-> a]
JObj(o) == [t |-> "obj", o |-> o]

EmptyMap == [k \in {} |-> Undef]

\* a Blob held by the file store, with the text blob.text() yields, or
\* unreadable (blob.text() rejects)
JBlob(readable, text) == [t |-> "blob", readable |-> readable, text |-> text]

(***************************************************************************)
(* Text: tokens of a JavaScript string                                     *)
(***************************************************************************)
\* punctuation of JSON: { } [ ] : ,
TP(c) == [k |-> "p", c |-> c]
\* a JSON string literal: the quoted (escaped) form of the string s
TStr(s) == [k |-> "s", s |-> s]
\* a JSON number literal
TNum(n) == [k |-> "n", n |-> n]
\* the literals null, true, false
TLit(w) == [k |-> "l", w |-> w]
\* any other run of characters (a word of prose, one character of a file)
TWord(w) == [k |-> "w", w |-> w]
\* white space
TWs == [k |-> "ws"]

\* the string made of one run of prose
Prose(w) == <<TWord(w)>>

IsWs(tok) == tok.k = "ws"

RECURSIVE TrimLeft(_)
TrimLeft(s) ==
  IF s # <<>> /\ IsWs(Head(s)) THEN TrimLeft(Tail(s)) ELSE s

RECURSIVE TrimRight(_)
TrimRight(s) ==
  IF s # <<>> /\ IsWs(s[Len(s)]) THEN TrimRight(SubSeq(s, 1, Len(s) - 1)) ELSE s

\* String.prototype.trim
Trim(s) == TrimRight(TrimLeft(s))

\* String.prototype.slice(0, n) for n >= 0
Slice0(s, n) == SubSeq(s, 1, IF Len(s) < n THEN Len(s) ELSE n)

(***************************************************************************)
(* JavaScript operators                                                    *)
(***************************************************************************)
\* v == null (null or undefined)
Nullish(v) == v.t \in {"undef", "null"}

\* a ?? b
Coalesce(a, b) == IF Nullish(a) THEN b ELSE a

\* !v
Falsy(v) ==
  \/ v.t \in {"undef", "null"}
  \/ v.t = "bool" /\ ~v.b
  \/ v.t = "num" /\ v.n = 0
  \/ v.t = "str" /\ v.s = <<>>

\* typeof v === "object"
TypeofObject(v) == v.t \in {"obj", "arr", "null", "blob"}

\* v?.k for a property name k that is no index and not "length"
Get(v, k) == IF v.t = "obj" /\ k \in DOMAIN v.o THEN v.o[k] ELSE Undef

\* v?.[0]
First(v) == IF v.t = "arr" /\ v.a # <<>> THEN v.a[1] ELSE Undef

\* the own enumerable properties copied by {...v}
SpreadMap(v) ==
  CASE v.t = "obj" -> v.o
    [] v.t = "arr" -> [i \in {ToString(j - 1) : j \in 1..Len(v.a)} |->
                         v.a[CHOOSE j \in 1..Len(v.a) : ToString(j - 1) = i]]
    [] v.t = "str" -> [i \in {ToString(j - 1) : j \in 1..Len(v.s)} |->
                         JStr(<<v.s[CHOOSE j \in 1..Len(v.s) : ToString(j - 1) = i]>>)]
    [] OTHER -> EmptyMap

\* k in v, for an object v
Has(v, k) == v.t = "obj" /\ k \in DOMAIN v.o

(***************************************************************************)
(* JSON.stringify and JSON.parse                                           *)
(***************************************************************************)
RECURSIVE SetToSeq(_)
SetToSeq(S) ==
  IF S = {} THEN <<>>
  ELSE LET x == CHOOSE y \in S : TRUE IN <<x>> \o SetToSeq(S \ {x})

RECURSIVE JSONstringify(_)
RECURSIVE StringifyElems(_)
RECURSIVE StringifyMembers(_, _, _)

\* the elements of an array, separated by commas; undefined is written null
StringifyElems(a) ==
  IF a = <<>> THEN <<>>
  ELSE (IF Head(a).t = "undef" THEN <<TLit("null")>> ELSE JSONstringify(Head(a)))
       \o (IF Len(a) > 1 THEN <<TP(",")>> ELSE <<>>)
       \o StringifyElems(Tail(a))

\* the members of an object for the keys ks; a member whose value is
\* undefined is left out
StringifyMembers(o, ks, first) ==
  IF ks = <<>> THEN <<>>
  ELSE IF o[Head(ks)].t = "undef" THEN StringifyMembers(o, Tail(ks), first)
  ELSE (IF first THEN <<>> ELSE <<TP(",")>>)
       \o <<TStr(Prose(Head(ks))), TP(":")>> \o JSONstringify(o[Head(ks)])
       \o StringifyMembers(o, Tail(ks), FALSE)

\* JSON.stringify(v) for a value v other than undefined
JSONstringify(v) ==
  CASE v.t = "null" -> <<TLit("null")>>
    [] v.t = "bool" -> <<TLit(IF v.b THEN "true" ELSE "false")>>
    [] v.t = "num" -> <<TNum(v.n)>>
    [] v.t = "str" -> <<TStr(v.s)>>
    [] v.t = "arr" -> <<TP("[")>> \o StringifyElems(v.a) \o <<TP("]")>>
    [] v.t = "obj" ->
         <<TP("{")>> \o StringifyMembers(v.o, SetToSeq(DOMAIN v.o), TRUE) \o <<TP("}")>>
    [] OTHER -> <<TP("{"), TP("}")>>

ParseFail == [ok |-> FALSE, v |-> Undef, rest |-> <<>>]
ParseOk(v, rest) == [ok |-> TRUE, v |-> v, rest |-> rest]

IsP(ts, c) == ts # <<>> /\ Head(ts).k = "p" /\ Head(ts).c = c

\* the name of a member: the key written by the string literal s
KeyOf(s) == IF Len(s) = 1 /\ s[1].k = "w" THEN s[1].w ELSE ""

RECURSIVE ParseValue(_)
RECURSIVE ParseMembers(_, _)
RECURSIVE ParseElements(_, _)

\* after "{" or after ",": a member, then "," or "}"; a repeated key keeps
\* the last value
ParseMembers(ts, acc) ==
  IF ts = <<>> \/ Head(ts).k # "s" \/ ~IsP(Tail(ts), ":") THEN ParseFail
  ELSE LET key == KeyOf(Head(ts).s)
           r == ParseValue(Tail(Tail(ts)))
       IN IF ~r.ok THEN ParseFail
          ELSE LET acc2 == [k \in DOMAIN acc \cup {key} |->
                              IF k = key THEN r.v ELSE acc[k]]
               IN IF IsP(r.rest, "}") THEN ParseOk(JObj(acc2), Tail(r.rest))
                  ELSE IF IsP(r.rest, ",") THEN ParseMembers(Tail(r.rest), acc2)
                  ELSE ParseFail

\* after "[" or after ",": an element, then "," or "]"
ParseElements(ts, acc) ==
  LET r == ParseValue(ts)
  IN IF ~r.ok THEN ParseFail
     ELSE IF IsP(r.rest, "]") THEN ParseOk(JArr(Append(acc, r.v)), Tail(r.rest))
     ELSE IF IsP(r.rest, ",") THEN ParseElements(Tail(r.rest), Append(acc, r.v))
     ELSE ParseFail

ParseValue(ts) ==
  IF ts = <<>> THEN ParseFail
  ELSE LET h == Head(ts)
       IN CASE h.k = "n" -> ParseOk(JNum(h.n), Tail(ts))
            [] h.k = "s" -> ParseOk(JStr(h.s), Tail(ts))
            [] h.k = "l" ->
                 ParseOk(IF h.w = "null" THEN JNull ELSE JBool(h.w = "true"), Tail(ts))
            [] h.k = "p" /\ h.c = "{" ->
                 IF IsP(Tail(ts), "}") THEN ParseOk(JObj(EmptyMap), Tail(Tail(ts)))
                 ELSE ParseMembers(Tail(ts), EmptyMap)
            [] h.k = "p" /\ h.c = "[" ->
                 IF IsP(Tail(ts), "]") THEN ParseOk(JArr(<<>>), Tail(Tail(ts)))
                 ELSE ParseElements(Tail(ts), <<>>)
            [] OTHER -> ParseFail

\* JSON.parse(text): ok is FALSE when it throws SyntaxError.  White space
\* between tokens is insignificant.  A value that is no string (text is not a
\* sequence) is not given to this operator.
JSONparse(text) ==
  LET r == ParseValue(SelectSeq(text, LAMBDA tok : ~IsWs(tok)))
  IN IF r.ok /\ r.rest = <<>> THEN [ok |-> TRUE, v |-> r.v]
     ELSE [ok |-> FALSE, v |-> Undef]

(***************************************************************************)
(* toAIResponseFromJSON and the reply handling of ollamaFeedback           *)
(***************************************************************************)
DefaultScore == 70

Categories == {"content", "skills", "structure", "toneAndStyle"}

\* { type, tip }
Tip(type, text) == JObj(("type" :> JStr(Prose(type))) @@ ("tip" :> JStr(Prose(text))))

\* { score, tips }
Block(score, tips) == JObj(("score" :> score) @@ ("tips" :> tips))

\* the entries of the object literal of toAIResponseFromJSON that come
\* before the spread
LiteralEntries(parsed, uuid) ==
  ("tips" :> Coalesce(Get(parsed, "tips"), JArr(<<>>)))
  @@ ("toneAndStyle" :>
        Coalesce(Get(parsed, "toneAndStyle"),
          Coalesce(Get(parsed, "tone_and_style"),
            Block(JNum(DefaultScore), Coalesce(Get(parsed, "toneTips"), JArr(<<>>))))))
  @@ ("structure" :>
        Coalesce(Get(parsed, "structure"),
          Block(JNum(DefaultScore), Coalesce(Get(parsed, "structureTips"), JArr(<<>>)))))
  @@ ("skills" :>
        Coalesce(Get(parsed, "skills"),
          JObj(("score" :> JNum(DefaultScore))
               @@ ("tips" :> Coalesce(Get(parsed, "skillsTips"), JArr(<<>>)))
               @@ ("missing" :> Coalesce(Get(parsed, "skillsMissing"), JArr(<<>>))))))
  @@ ("content" :>
        Coalesce(Get(parsed, "content"),
          Block(Coalesce(Get(parsed, "contentScore"), JNum(DefaultScore)),
                Coalesce(Get(parsed, "contentTips"), JArr(<<>>)))))
  @@ ("overallScore" :>
        Coalesce(Get(parsed, "overallScore"),
          Coalesce(Get(parsed, "overall_score"), JNum(DefaultScore))))
  @@ ("id" :> JStr(Prose(uuid)))

\* `...(parsed ?? {})` is the last entry of the literal and a later entry
\* replaces an earlier one of the same key: in  m1 @@ m2  the map m1 wins.
toAIResponseFromJSON(parsed, uuid) ==
  JObj(SpreadMap(Coalesce(parsed, JObj(EmptyMap))) @@ LiteralEntries(parsed, uuid))

NonJsonTip == "AI returned non-JSON output. Try a different model or simplify the input."

\* the object ollamaFeedback passes to toAIResponseFromJSON when the reply
\* text does not parse
FallbackParsed ==
  JObj(
    ("overallScore" :> JNum(65))
    @@ ("tips" :> JArr(<<Tip("improve", NonJsonTip)>>))
    @@ ("content" :>
          Block(JNum(65), JArr(<<Tip("improve",
            "Add more role-specific keywords and measurable achievements.")>>)))
    @@ ("skills" :>
          Block(JNum(60), JArr(<<Tip("improve",
            "List key tools/skills explicitly to improve ATS matching.")>>)))
    @@ ("structure" :>
          Block(JNum(70), JArr(<<Tip("good",
            "Structure looks mostly clear; ensure consistent headings and spacing.")>>)))
    @@ ("toneAndStyle" :>
          Block(JNum(65), JArr(<<Tip("improve",
            "Use stronger action verbs and quantify results.")>>))))

\* `raw` and the outcome of JSON.parse(raw.trim()) in ollamaFeedback, for the
\* body `data` of a 2xx reply; raw.trim() throws inside the try when raw is
\* no string
ParsedReply(data) ==
  LET raw == Coalesce(Get(data, "response"), JStr(<<>>))
  IN IF raw.t = "str" THEN JSONparse(Trim(raw.s)) ELSE [ok |-> FALSE, v |-> Undef]

\* faulty variant: the parsed reply is returned as it is
OllamaRecord_Unmapped(data, uuid) ==
  IF ParsedReply(data).ok THEN ParsedReply(data).v
  ELSE toAIResponseFromJSON(FallbackParsed, uuid)

\* faulty variant: the catch block maps an empty object
OllamaRecord_EmptyFallback(data, uuid) ==
  IF ParsedReply(data).ok THEN toAIResponseFromJSON(ParsedReply(data).v, uuid)
  ELSE toAIResponseFromJSON(JObj(EmptyMap), uuid)

\* ollamaFeedback from `const data = await res.json()` on, for the body
\* `data`; uuid is the value crypto.randomUUID() returns
OllamaRecord(data, uuid) ==
  IF ParsedReply(data).ok THEN toAIResponseFromJSON(ParsedReply(data).v, uuid)
  ELSE toAIResponseFromJSON(FallbackParsed, uuid)

(***************************************************************************)
(* normalizeFeedback: the string-preserving one of the first viewer        *)
(* (normalizeFeedbackA) and the null-returning one of the second           *)
(* (normalizeFeedbackB)                                                    *)
(***************************************************************************)
\* obj[k] = v
SetKey(obj, k, v) == JObj((k :> v) @@ obj.o)

\* faulty variant: the nested feedback is not looked for
Effective_NoUnwrap(input) == input

\* `input?.feedback && typeof input.feedback === "object" ? input.feedback : input`
Effective(input) ==
  IF ~Falsy(Get(input, "feedback")) /\ TypeofObject(Get(input, "feedback"))
    THEN Get(input, "feedback")
    ELSE input

\* faulty variant: the alternate keys are not looked at
Reconcile_None(maybe) == maybe

\* faulty variant: overall_score replaces an overallScore that is falsy
Reconcile_FalsyScore(maybe) ==
  LET m1 == IF Falsy(Get(maybe, "toneAndStyle")) /\ ~Falsy(Get(maybe, "tone_and_style"))
              THEN SetKey(maybe, "toneAndStyle", Get(maybe, "tone_and_style"))
              ELSE maybe
  IN IF Falsy(Get(m1, "overallScore")) /\ ~Nullish(Get(m1, "overall_score"))
       THEN SetKey(m1, "overallScore", Get(m1, "overall_score"))
       ELSE m1

\* the two assignments of alternate keys, on the effective object
Reconcile(maybe) ==
  LET m1 == IF Falsy(Get(maybe, "toneAndStyle")) /\ ~Falsy(Get(maybe, "tone_and_style"))
              THEN SetKey(maybe, "toneAndStyle", Get(maybe, "tone_and_style"))
              ELSE maybe
  IN IF Nullish(Get(m1, "overallScore")) /\ ~Nullish(Get(m1, "overall_score"))
       THEN SetKey(m1, "overallScore", Get(m1, "overall_score"))
       ELSE m1

\* the object given to normalizeFeedback as the call leaves it: the two
\* assignments are made on the object itself, or on the object it holds
\* under feedback; a string is parsed into a new value and is left as it is
InputAfter(input) ==
  IF input.t # "obj" THEN input
  ELSE IF Effective(input) = input THEN Reconcile(input)
  ELSE SetKey(input, "feedback", Reconcile(Get(input, "feedback")))

\* faulty variant: a parsed string is returned as parsed
NormalizeParsed_AsIs(v, again) == v

\* what normalizeFeedback does with the value a string parsed to: it calls
\* itself (again is its result for that value)
NormalizeParsed(v, again) == again

RECURSIVE normalizeFeedbackA(_)
normalizeFeedbackA(input) ==
  IF Falsy(input) THEN JStr(<<>>)
  ELSE IF TypeofObject(input) THEN Reconcile(Effective(input))
  ELSE IF input.t = "str"
    THEN LET parsed == JSONparse(input.s)
         IN IF parsed.ok THEN NormalizeParsed(parsed.v, normalizeFeedbackA(parsed.v))
            ELSE input
  ELSE \* a number that is not 0, or true: String(input) is its JSON text
       LET parsed == JSONparse(JSONstringify(input))
       IN IF parsed.ok THEN parsed.v ELSE JStr(JSONstringify(input))

\* faulty variant: the normalizeFeedback of the first viewer is used
normalizeFeedbackB_AsFirst(input) == normalizeFeedbackA(input)

RECURSIVE normalizeFeedbackB(_)
normalizeFeedbackB(input) ==
  IF Falsy(input) THEN JNull
  ELSE IF input.t = "str"
    THEN LET parsed == JSONparse(input.s)
         IN IF parsed.ok THEN NormalizeParsed(parsed.v, normalizeFeedbackB(parsed.v))
            ELSE JNull
  ELSE IF ~TypeofObject(input) THEN JNull
  ELSE Reconcile(Effective(input))

(***************************************************************************)
(* Bounds and inputs                                                       *)
(***************************************************************************)
\* the longest file text is SliceLimit + FileOver characters
FileOver == 2

\* fileText.slice(0, 6000)
SliceLimit == 6000

\* values of crypto.randomUUID() and generateUUID()
UUIDs == {"u1", "u2"}

\* one character of a file's text
FileChar(i) == TWord(<<"a", "b", "c">>[(i % 3) + 1])
IsFileChar(tok) == tok \in {FileChar(i) : i \in 1..3}

\* the text of a file of n characters
FileText(n) == [i \in 1..n |-> FileChar(i)]

FileLens == {0, 1, SliceLimit} \cup {SliceLimit + i : i \in 1..FileOver}

\* what puter.fs.read may resolve to: nothing, a blob whose text() resolves,
\* a blob whose text() rejects
Blobs == {JBlob(TRUE, FileText(n)) : n \in FileLens} \cup {JBlob(FALSE, <<>>)}

Paths == {Prose("/resumes/cv.pdf")}


\* { k: v }
Obj1(k, v) == JObj(k :> v)

SomeTip == Tip("improve", "Quantify results.")

\* JSON values a model's reply text may hold
ReplyValues ==
  { Obj1("overallScore", JNum(77)),
    JObj(("overallScore" :> JNum(88))
         @@ ("content" :> Block(JNum(81), JArr(<<SomeTip>>)))
         @@ ("skills" :> Block(JNum(72), JArr(<<>>)))
         @@ ("structure" :> Block(JNum(93), JArr(<<SomeTip, SomeTip>>)))
         @@ ("toneAndStyle" :> Block(JNum(64), JArr(<<>>)))
         @@ ("tips" :> JArr(<<SomeTip>>))),
    Obj1("overallScore", JNull),
    Obj1("content", Obj1("tips", JArr(<<>>))),
    JObj(("overall_score" :> JNum(81))
         @@ ("tone_and_style" :> Block(JNum(60), JArr(<<>>)))
         @@ ("contentScore" :> JNum(55))),
    JObj(("overallScore" :> JNull) @@ ("content" :> JNull) @@ ("skills" :> JNull)
         @@ ("structure" :> JNull) @@ ("toneAndStyle" :> JNull)),
    JNum(5) }

NotJsonText == <<TWord("not"), TWs, TWord("json")>>

\* texts of the response field: JSON texts, one of them padded with white
\* space, and texts JSON.parse rejects
ReplyTexts ==
  {JSONstringify(v) : v \in ReplyValues}
  \cup { <<TWs>> \o JSONstringify(Obj1("overallScore", JNum(77))) \o <<TWs>>,
         NotJsonText,
         <<>>,
         <<TP("{"), TStr(Prose("overallScore")), TP(":"), TNum(77)>>,
         <<TP("{"), TStr(Prose("overallScore")), TP(":"), TNum(77), TP(","), TP("}")>> }

\* bodies res.json() may resolve to
OllamaData ==
  {Obj1("response", JStr(txt)) : txt \in ReplyTexts}
  \cup {JObj(EmptyMap), JNull, Obj1("response", JNum(5)), Obj1("response", JNull)}

\* the keys of a reply that toAIResponseFromJSON reads only to fill a
\* default block
FlatKeys ==
  ("contentScore" :> JNum(55)) @@ ("contentTips" :> JArr(<<SomeTip>>))
  @@ ("skillsTips" :> JArr(<<SomeTip>>)) @@ ("skillsMissing" :> JArr(<<JStr(Prose("SQL"))>>))
  @@ ("structureTips" :> JArr(<<SomeTip>>)) @@ ("toneTips" :> JArr(<<SomeTip, SomeTip>>))

Absent == Undef

\* per key of a reply: the values it is given, Absent when the key is left out
KeyChoices ==
  [ overallScore |-> {Absent, JNull, JNum(0), JNum(77)},
    overall_score |-> {Absent, JNull, JNum(50)},
    content |-> {Absent, JNull, Obj1("tips", JArr(<<>>)), Block(JNum(81), JArr(<<SomeTip>>))},
    skills |-> {Absent, JNull, Obj1("score", JNum(90))},
    structure |-> {Absent, JStr(Prose("good"))},
    toneAndStyle |-> {Absent, JNull, Block(JNum(64), JArr(<<>>))},
    tone_and_style |-> {Absent, JNull, Block(JNum(60), JArr(<<SomeTip>>))} ]

\* the object that gives key k the value c[k] unless that is Absent
ObjectOf(c, more) ==
  JObj([k \in {x \in DOMAIN c : c[x] # Absent} |-> c[k]] @@ more)

\* objects with every combination of KeyChoices, with and without FlatKeys
ReplyObjects ==
  { ObjectOf([overallScore |-> v1, overall_score |-> v2, content |-> v3, skills |-> v4,
              structure |-> v5, toneAndStyle |-> v6, tone_and_style |-> v7],
             more) :
      v1 \in KeyChoices.overallScore, v2 \in KeyChoices.overall_score,
      v3 \in KeyChoices.content, v4 \in KeyChoices.skills,
      v5 \in KeyChoices.structure, v6 \in KeyChoices.toneAndStyle,
      v7 \in KeyChoices.tone_and_style,
      more \in {EmptyMap, FlatKeys} }

\* values of a reply text that are no objects
ReplyScalars == {JNum(5), JStr(Prose("fine")), JArr(<<JNum(1), JNull>>), JNull, JBool(TRUE)}

\* the bodies the reply handling of ollamaFeedback is applied to on its own
ReplyBodies ==
  {Obj1("response", JStr(JSONstringify(v))) : v \in ReplyObjects \cup ReplyScalars}
  \cup OllamaData

\* objects a persisted feedback may hold under its feedback key: none, one
\* or two more levels of wrapping
Wrapped ==
  { JObj(EmptyMap),
    Obj1("overallScore", JNum(82)),
    Obj1("tone_and_style", Block(JNum(60), JArr(<<>>))),
    Obj1("feedback", Obj1("overallScore", JNum(82))),
    Obj1("feedback", Obj1("feedback", Obj1("overall_score", JNum(50)))) }

\* per key of a value given to normalizeFeedback: the values it is given
NormChoices ==
  [ feedback |-> {Absent, JNull, JStr(<<>>), JStr(Prose("see notes")), JArr(<<>>)}
                   \cup Wrapped,
    overallScore |-> {Absent, JNull, JNum(0), JNum(77)},
    overall_score |-> {Absent, JNull, JNum(50)},
    toneAndStyle |-> {Absent, JNull, Block(JNum(64), JArr(<<>>))},
    tone_and_style |-> {Absent, JStr(<<>>), Block(JNum(60), JArr(<<SomeTip>>))},
    model |-> {Absent, JStr(Prose("llama3.2:3b"))} ]

NormObjects ==
  { ObjectOf([feedback |-> v1, overallScore |-> v2, overall_score |-> v3,
              toneAndStyle |-> v4, tone_and_style |-> v5, model |-> v6], EmptyMap) :
      v1 \in NormChoices.feedback, v2 \in NormChoices.overallScore,
      v3 \in NormChoices.overall_score, v4 \in NormChoices.toneAndStyle,
      v5 \in NormChoices.tone_and_style, v6 \in NormChoices.model }

\* strings: empty, prose, JSON texts of objects, of scalars, of a string, and
\* of a string that is itself the JSON text of an object
NormStrings ==
  { JStr(<<>>), JStr(NotJsonText), JStr(Prose("hello")),
    JStr(<<TNum(5)>>), JStr(<<TNum(0)>>), JStr(<<TLit("null")>>), JStr(<<TLit("true")>>),
    JStr(JSONstringify(JStr(Prose("hello")))),
    JStr(JSONstringify(JStr(JSONstringify(Obj1("overall_score", JNum(50)))))) }
  \cup {JStr(JSONstringify(v)) : v \in Wrapped \cup ReplyValues}

NormScalars ==
  { Undef, JNull, JNum(0), JNum(5), JBool(TRUE), JBool(FALSE), JArr(<<>>),
    JArr(<<Obj1("overallScore", JNum(82))>>) }

NormInputs == NormObjects \cup NormStrings \cup NormScalars

\* what a record read by a viewer may hold as its feedback: the empty
\* string of the placeholder, a string that is no JSON, a record stored as a
\* string, records with canonical and with alternate keys, with keys that
\* are no fields of a Feedback, and records wrapped in feedback levels
StoredFeedbacks ==
  { JStr(<<>>), JStr(NotJsonText), JNull,
    JStr(JSONstringify(Obj1("overall_score", JNum(50)))),
    JObj(("overallScore" :> JNum(82))
         @@ ("content" :> Block(JNum(80), JArr(<<SomeTip>>)))
         @@ ("toneAndStyle" :> Block(JNum(64), JArr(<<>>)))),
    JObj(("overall_score" :> JNum(50))
         @@ ("tone_and_style" :> Block(JNum(60), JArr(<<SomeTip>>)))
         @@ ("model" :> JStr(Prose("llama3.2:3b")))),
    JObj(("overallScore" :> JNum(0)) @@ ("overall_score" :> JNum(50))),
    JObj(("model" :> JStr(Prose("llama3.2:3b")))
         @@ ("feedback" :> Obj1("overallScore", JNum(82)))),
    JObj(("overallScore" :> JNum(82)) @@ ("feedback" :> JStr(Prose("see notes")))),
    JObj(("overallScore" :> JNum(82)) @@ ("feedback" :> JNull)),
    JObj(("overallScore" :> JNum(82))
         @@ ("feedback" :> JStr(JSONstringify(Obj1("overallScore", JNum(40)))))),
    Obj1("feedback", Obj1("feedback", Obj1("feedback", Obj1("overallScore", JNum(82))))),
    Obj1("message", Obj1("content", JStr(NotJsonText))) }
  \cup Wrapped

ScenarioAText ==
  JSONstringify(JObj(("overallScore" :> JNum(82))
                     @@ ("content" :> Block(JNum(80), JArr(<<>>)))))

\* what puter.ai.chat may resolve to
PrimaryReplies ==
  { Undef, JNull,
    JStr(<<>>), JStr(Prose("hello")), JStr(ScenarioAText),
    Obj1("message", Obj1("content", JStr(ScenarioAText))),
    Obj1("message", Obj1("content", JArr(<<Obj1("text", JStr(ScenarioAText))>>))),
    Obj1("message", Obj1("content", JStr(NotJsonText))),
    Obj1("message", Obj1("content", JStr(<<>>))),
    Obj1("message", Obj1("content", JArr(<<Obj1("type", JStr(Prose("image")))>>))),
    Obj1("foo", JNum(1)) }

\* the shapes of message.content and of its first element
ContentShapes ==
  { Absent, JNull, JNum(7), JStr(<<>>), JStr(ScenarioAText), JStr(Prose("plain words")),
    JArr(<<>>), JArr(<<JNull>>), JArr(<<JStr(Prose("loose"))>>),
    JArr(<<Obj1("text", JStr(ScenarioAText))>>),
    JArr(<<Obj1("text", JStr(<<>>))>>),
    JArr(<<Obj1("text", JNum(3))>>),
    JArr(<<Obj1("type", JStr(Prose("image"))), Obj1("text", JStr(Prose("second")))>>),
    Obj1("text", JStr(Prose("not in a sequence"))) }

\* replies with a message, alone or next to keys of a record
MessageReplies ==
  { ObjectOf([message |-> m, overallScore |-> o], EmptyMap) :
      m \in {Absent, JNull, JStr(Prose("a string")), JArr(<<>>)}
               \cup {ObjectOf([content |-> c, role |-> r], EmptyMap) :
                        c \in ContentShapes,
                        r \in {Absent, JStr(Prose("assistant"))}},
      o \in {Absent, JNum(82)} }

\* what extractFeedbackText is given on its own: message replies, the
\* replies of puter.ai.chat, records of ollamaFeedback, wrapped objects,
\* strings, and values that are neither strings nor objects
ExtractInputs ==
  MessageReplies \cup PrimaryReplies \cup Wrapped \cup NormStrings \cup NormScalars
  \cup {OllamaRecord(d, "u1") : d \in OllamaData}

\* errors puter.ai.chat may throw
PrimaryErrors == {"insufficient credits", "rate limited"}

Messages == {<<TWord("Job Title: Data Engineer"), TWs, TWord("Return ONLY valid JSON as instructed.")>>}

(***************************************************************************)
(* State                                                                   *)
(***************************************************************************)
VARIABLES
  puter,      \* window.puter is set (getPuter() returns it)
  store,      \* the zustand store: error, isLoading, puterReady, auth
  fpc,        \* ai.feedback: "idle", the call it awaits, or "settled"
  fargs,      \* ai.feedback's arguments path and message
  fpath,      \* ai.feedback: "primary", "unavailable" (no client), "threw"
  ftry,       \* the block the pending ollamaFeedback call is in: "try", "catch"
  fileText,   \* ai.feedback's local fileText, once computed
  ollamaReq,  \* the body of the pending request to OLLAMA_URL
  fres,       \* how the promise of ai.feedback settled
  nChat,      \* calls of puter.ai.chat made by this call of ai.feedback
  nOllama,    \* requests to OLLAMA_URL made by this call of ai.feedback
  nReadFile,  \* calls of the store's readFile made by this call of ai.feedback
  nFsRead,    \* calls of puter.fs.read made by this call of ai.feedback
  fprimary,   \* how puter.ai.chat ended: the reply it returned, the error it threw
  fdata,      \* the body of the 2xx reply of Ollama that ai.feedback used
  hpc,        \* handleAnalyze: "idle", the call it awaits, "timer" or "done"
  hp,         \* handleAnalyze's params: companyName, jobTitle, jobDescription
  hpdf,       \* handleAnalyze's local uploadedPdf
  hdata,      \* handleAnalyze's local data
  kvPending,  \* key and value of the pending puter.kv.set, and which write it is
  statusText, \* the upload page's statusText
  isProcessing, \* the upload page's isProcessing
  route,      \* the location of the browser
  kv,         \* the key-value store of the backend
  kvLog,      \* the values puter.kv.set stored, in order
  hlog,       \* the steps of handleAnalyze that have happened, in order
  rIn,        \* a body res.json() resolved to
  rOut,       \* what ollamaFeedback returns for rIn
  nIn,        \* a value normalizeFeedback is given
  nOnce,      \* what the two normalizeFeedback return for nIn
  nTwice,     \* what they return for their own result
  nSer,       \* what they return for JSON.stringify(nIn)
  nAfter,     \* the value given to normalizeFeedback, after the call
  eIn,        \* a reply extractFeedbackText is given
  eOut,       \* what extractFeedbackText returns for eIn
  vpc,        \* loadResume: "unmounted", the call it awaits, or "done"
  vid,        \* the id of the route the viewer was mounted with
  vdata,      \* loadResume's local data
  cancelled,  \* the flag of the effect that called loadResume
  pageLoading, \* the viewer's pageLoading
  verror,     \* the viewer's error
  resumeData, \* the viewer's resumeData
  vfeedback,  \* the viewer's feedback
  resumeUrl,  \* the viewer's resumeUrl
  imageUrl,   \* the viewer's imageUrl
  vawait,     \* how the last call loadResume awaited ended
  vsnap,      \* the viewer's state when the cleanup of its effect ran
  lpc,        \* load of the first viewer: "unmounted", "kv_get" or "done"
  lid,        \* the id of the route the first viewer was mounted with
  lmounted,   \* the first viewer is mounted
  loading,    \* the first viewer's loading
  ldata,      \* the first viewer's data
  lerror,     \* the first viewer's error
  lawait,     \* how the call load awaited ended
  lsnap,      \* the first viewer's state when it was unmounted
  ipc,        \* the store's init: "idle" before its call, "called" after
  iclock,     \* polling periods that have ended since the call of init
  interval,   \* the interval init set is still set
  timer,      \* the timeout init set has not fired yet
  apc,        \* checkAuthStatus: "idle", "is_signed_in" (awaited), "done"
  nAuth,      \* calls of checkAuthStatus
  bridgeAtEnd, \* what getPuter() gave the callback of the timeout
  wlast,      \* the last call of a wrapper of the store: which, and how it went
  upc,        \* the auth operation a page has called: its name and the call it awaits
  search,     \* the next parameter of the location's query, as written in the URL
  authNav     \* the last navigation of the Auth page: its target, the store then

\* the reply handling of ollamaFeedback applied to one body on its own
rvars == <<rIn, rOut>>

\* the two normalizeFeedback applied to one value on its own
nvars == <<nIn, nOnce, nTwice, nSer, nAfter>>

\* extractFeedbackText applied to one reply on its own
evars == <<eIn, eOut>>

\* the first viewer page and load
lvars == <<lpc, lid, lmounted, loading, ldata, lerror, lawait, lsnap>>

\* the state of the first viewer page
lpage == <<loading, ldata, lerror>>

\* the store's init, its two timers and the auth check it starts
ivars == <<ipc, iclock, interval, timer, apc, nAuth, bridgeAtEnd>>

\* the wrappers of the store, the auth operations pages call, the Auth page
avars == <<wlast, upc, search, authNav>>

\* the variables of what is looked at on its own: the reply handling, the
\* two normalizeFeedback, the first viewer
svars == <<rvars, nvars, lvars, evars, ivars, avars>>

\* the upload page and handleAnalyze, without the location
hflow == <<hpc, hp, hpdf, hdata, kvPending, statusText, isProcessing, hlog>>

hvars == <<hpc, hp, hpdf, hdata, kvPending, statusText, isProcessing, route, hlog>>

\* the viewer page and loadResume
vvars == <<vpc, vid, vdata, cancelled, pageLoading, verror, resumeData, vfeedback,
           resumeUrl, imageUrl, vawait, vsnap>>

\* the state of the viewer page
vpage == <<pageLoading, verror, resumeData, vfeedback, resumeUrl, imageUrl>>

fcount == <<nChat, nOllama, nReadFile, nFsRead>>

fvars == <<fpc, fargs, fpath, ftry, fileText, ollamaReq, fres, fprimary, fdata, fcount>>

None == [t |-> "none"]

NoOutcome == [kind |-> "none"]
Pending == [kind |-> "pending"]
Resolved(v) == [kind |-> "resolved", v |-> v]
Rejected(e) == [kind |-> "rejected", err |-> e]

(***************************************************************************)
(* The store                                                               *)
(***************************************************************************)
NoError == "null"
NoUser == "null"

StoreInit ==
  [error |-> NoError, isLoading |-> TRUE, puterReady |-> FALSE,
   user |-> NoUser, isAuthenticated |-> FALSE]

\* faulty variant: only the error is set
setError_ErrorOnly(st, msg) == [st EXCEPT !.error = msg]

setError(st, msg) ==
  [st EXCEPT !.error = msg, !.isLoading = FALSE,
             !.user = NoUser, !.isAuthenticated = FALSE]

NotAvailable == "Puter.js not available"

(***************************************************************************)
(* ai.feedback and ollamaFeedback                                          *)
(***************************************************************************)
StrictHeader == "You are an ATS resume analyzer. ... Analyze based on the following input:"

\* the template literal of ollamaFeedback, trimmed
StrictPrompt(prompt) ==
  Trim(<<TWs, TWord(StrictHeader), TWs>> \o prompt \o <<TWs>>)

\* the request body of ollamaFeedback
OllamaBody(prompt) ==
  [model |-> "llama3.2:3b", prompt |-> StrictPrompt(prompt), stream |-> FALSE]

\* blobToTextSafe
blobToTextSafe(blob) == IF blob.readable THEN blob.text ELSE <<>>

\* faulty variant: the file's text goes into the prompt whole
Combined_NoSlice(message, path, text) ==
  message \o <<TWord("\n\n(Resume file path: ")>> \o path
          \o <<TWord(")\n(Resume raw text if extractable: ")>>
          \o text \o <<TWord(")")>>

\* the template literal `combined` of feedback
Combined(message, path, text) ==
  message \o <<TWord("\n\n(Resume file path: ")>> \o path
          \o <<TWord(")\n(Resume raw text if extractable: ")>>
          \o Slice0(text, SliceLimit) \o <<TWord(")")>>

\* ollamaFeedback(prompt) up to its await of fetch
CallOllama(prompt, block) ==
  /\ ollamaReq' = OllamaBody(prompt)
  /\ nOllama' = nOllama + 1
  /\ ftry' = block
  /\ fpc' = "fetch"

\* `const blob = await readFile(path)` resolved to blob, up to the await of
\* fetch in ollamaFeedback(combined)
BuildAndCallOllama(path, message, blob) ==
  LET text == IF Falsy(blob) THEN <<>> ELSE blobToTextSafe(blob)
  IN /\ fileText' = JStr(text)
     /\ CallOllama(Combined(message, path, text), "try")

\* faulty variant: puter.ai.chat is called without the check of the bridge
FeedbackCall_ChatFirst(st, path, message) ==
  /\ fargs' = [path |-> path, message |-> message]
  /\ fres' = Pending
  /\ fpath' = IF puter THEN "primary" ELSE "unavailable"
  /\ fpc' = "chat"
  /\ nChat' = nChat + 1
  /\ store' = st
  /\ UNCHANGED <<ftry, fileText, ollamaReq, nOllama, nReadFile, nFsRead>>
  /\ UNCHANGED <<fprimary, fdata>>

\* feedback(path, message) up to its first await on the environment
\* (st is the store when it is called)
FeedbackCall(st, path, message) ==
  /\ fargs' = [path |-> path, message |-> message]
  /\ fres' = Pending
  /\ IF ~puter
       THEN \* readFile finds no bridge: setError, returns undefined
            /\ fpath' = "unavailable"
            /\ store' = setError(st, NotAvailable)
            /\ nReadFile' = nReadFile + 1
            /\ BuildAndCallOllama(path, message, Undef)
            /\ UNCHANGED <<nChat, nFsRead>>
       ELSE /\ fpath' = "primary"
            /\ fpc' = "chat"
            /\ nChat' = nChat + 1
            /\ store' = st
            /\ UNCHANGED <<ftry, fileText, ollamaReq, nOllama, nReadFile, nFsRead>>
  /\ UNCHANGED <<fprimary, fdata>>

\* the promise of ai.feedback settles; its locals go out of scope
Settle(r) ==
  /\ fres' = r
  /\ fpc' = "settled"
  /\ fileText' = None
  /\ ollamaReq' = None

\* a caller invokes ai.feedback(path, message)
DirectCall ==
  /\ fpc = "idle"
  /\ hpc = "idle"
  /\ \E path \in Paths, message \in Messages : FeedbackCall(store, path, message)
  /\ UNCHANGED <<puter, hvars, kv, kvLog>>
  /\ UNCHANGED <<svars, vvars>>

\* faulty variant: the text of the reply is returned in place of the reply
ChatReturns_Unwrapped ==
  /\ fpc = "chat"
  /\ \E reply \in PrimaryReplies :
       /\ fprimary' = [kind |-> "returned", v |-> reply]
       /\ Settle(Resolved(Get(Get(reply, "message"), "content")))
  /\ UNCHANGED <<puter, store, fargs, fpath, ftry, fdata, fcount>>
  /\ UNCHANGED <<hvars, kv, kvLog>>
  /\ UNCHANGED <<svars, vvars>>

\* puter.ai.chat resolves: `return await puter.ai.chat(...)`
ChatReturns ==
  /\ fpc = "chat"
  /\ \E reply \in PrimaryReplies :
       /\ fprimary' = [kind |-> "returned", v |-> reply]
       /\ Settle(Resolved(reply))
  /\ UNCHANGED <<puter, store, fargs, fpath, ftry, fdata, fcount>>
  /\ UNCHANGED <<hvars, kv, kvLog>>
  /\ UNCHANGED <<svars, vvars>>

\* faulty variant: no catch block, the error of puter.ai.chat rejects ai.feedback
ChatThrows_Rethrow ==
  /\ fpc = "chat"
  /\ \E err \in PrimaryErrors :
       /\ fprimary' = [kind |-> "threw", err |-> err]
       /\ Settle(Rejected(err))
  /\ fpath' = "threw"
  /\ UNCHANGED <<puter, store, fargs, ftry, fdata, fcount>>
  /\ UNCHANGED <<hvars, kv, kvLog>>
  /\ UNCHANGED <<svars, vvars>>

\* puter.ai.chat rejects: the catch block calls readFile(path)
ChatThrows ==
  /\ fpc = "chat"
  /\ \E err \in PrimaryErrors : fprimary' = [kind |-> "threw", err |-> err]
  /\ fpath' = "threw"
  /\ nReadFile' = nReadFile + 1
  /\ IF puter
       THEN /\ fpc' = "read"
            /\ nFsRead' = nFsRead + 1
            /\ UNCHANGED <<store, ftry, fileText, ollamaReq, nOllama>>
       ELSE \* readFile finds no bridge: setError, returns undefined
            /\ store' = setError(store, NotAvailable)
            /\ BuildAndCallOllama(fargs.path, fargs.message, Undef)
            /\ UNCHANGED nFsRead
  /\ UNCHANGED <<puter, fargs, fres, fdata, nChat>>
  /\ UNCHANGED <<hvars, kv, kvLog>>
  /\ UNCHANGED <<svars, vvars>>

\* puter.fs.read resolves to nothing or to a blob; blobToTextSafe; then
\* ollamaFeedback(combined)
ReadReturns ==
  /\ fpc = "read"
  /\ \E blob \in {Undef} \cup Blobs :
       BuildAndCallOllama(fargs.path, fargs.message, blob)
  /\ UNCHANGED <<puter, store, fargs, fpath, fres, fprimary, fdata, nChat, nReadFile, nFsRead>>
  /\ UNCHANGED <<hvars, kv, kvLog>>
  /\ UNCHANGED <<svars, vvars>>

\* puter.fs.read rejects: the inner catch calls ollamaFeedback(message)
ReadThrows ==
  /\ fpc = "read"
  /\ CallOllama(fargs.message, "catch")
  /\ UNCHANGED <<puter, store, fargs, fpath, fileText, fres, fprimary, fdata, nChat,
                 nReadFile, nFsRead>>
  /\ UNCHANGED <<hvars, kv, kvLog>>
  /\ UNCHANGED <<svars, vvars>>

\* ollamaFeedback throws err.  `return await ollamaFeedback(combined)` is
\* inside the try block, so its catch block calls ollamaFeedback(message);
\* thrown by that call, err rejects the promise of ai.feedback.
OllamaThrows(err) ==
  /\ fpc = "fetch"
  /\ IF ftry = "try"
       THEN /\ CallOllama(fargs.message, "catch")
            /\ UNCHANGED <<fileText, fres>>
       ELSE /\ Settle(Rejected(err))
            /\ UNCHANGED <<ftry, nOllama>>
  /\ UNCHANGED <<puter, store, fargs, fpath, fprimary, fdata, nChat, nReadFile, nFsRead>>
  /\ UNCHANGED <<hvars, kv, kvLog>>
  /\ UNCHANGED <<svars, vvars>>

\* fetch rejects (no connection)
OllamaNetworkFails == OllamaThrows("fetch failed")

\* res.ok is false: throw new Error(`Ollama request failed (...)`)
OllamaNon2xx == OllamaThrows("Ollama request failed")

\* res.ok, and res.json() rejects
OllamaBodyNotJSON == OllamaThrows("body is not JSON")

\* res.ok, and res.json() resolves to data
OllamaReplies ==
  /\ fpc = "fetch"
  /\ \E data \in OllamaData, uuid \in UUIDs :
       /\ fdata' = data
       /\ Settle(Resolved(OllamaRecord(data, uuid)))
  /\ UNCHANGED <<puter, store, fargs, fpath, ftry, fprimary, fcount>>
  /\ UNCHANGED <<hvars, kv, kvLog>>
  /\ UNCHANGED <<svars, vvars>>

\* the script of the bridge finishes loading: window.puter is set
BridgeLoads ==
  /\ ~puter
  /\ puter' = TRUE
  /\ UNCHANGED <<store, fvars, hvars, kv, kvLog>>
  /\ UNCHANGED <<svars, vvars>>

(***************************************************************************)
(* The wrappers of the store around the methods of the bridge              *)
(***************************************************************************)
\* write, readFile, readDir, upload, deleteFile, chat, img2txt, getKV,
\* setKV, deleteKV, listKV, flushKV, by the names the store gives them
Wrappers ==
  {"fs.write", "fs.read", "fs.readDir", "fs.upload", "fs.delete",
   "ai.chat", "ai.img2txt",
   "kv.get", "kv.set", "kv.delete", "kv.list", "kv.flush"}

\* one call of a wrapper with the store st: without window.puter it calls
\* setError and returns undefined; with it, it calls the method of the
\* bridge and returns the promise that method gives, and sets nothing
\* (set is the store it set, if it set one)
Wrapper(st, name) ==
  IF ~puter
    THEN [name |-> name, puter |-> FALSE, bridge |-> FALSE,
          returned |-> "undefined", set |-> setError(st, NotAvailable)]
    ELSE [name |-> name, puter |-> TRUE, bridge |-> TRUE,
          returned |-> "promise of the bridge", set |-> None]

\* a page calls a wrapper of the store
WrapperCalled ==
  /\ \E name \in Wrappers :
       /\ wlast' = Wrapper(store, name)
       /\ store' = IF Wrapper(store, name).set = None THEN store
                   ELSE Wrapper(store, name).set
  /\ UNCHANGED <<upc, search, authNav>>
  /\ UNCHANGED <<puter, fvars, hvars, kv, kvLog, vvars, rvars, nvars, lvars, evars, ivars>>

(***************************************************************************)
(* The store's init: the wait for window.puter, and checkAuthStatus        *)
(***************************************************************************)
PollMs == 100
WaitMs == 10000

\* the polling periods of the wait
Polls == WaitMs \div PollMs

TimeoutError == "Puter.js failed to load within 10 seconds"
AuthCheckFailed == "Failed to check auth status"
SomeUser == "user"

\* checkAuthStatus, called with the store st, up to its first await
checkAuthStatus(st) ==
  /\ nAuth' = nAuth + 1
  /\ IF ~puter
     THEN /\ store' = setError(st, NotAvailable)
          /\ apc' = "done"
     ELSE /\ store' = [st EXCEPT !.isLoading = TRUE, !.error = NoError]
          /\ apc' = "is_signed_in"

\* init(): with window.puter set it marks the store ready and starts the
\* auth check; without it it sets an interval and a timeout
init ==
  /\ ipc = "idle"
  /\ ipc' = "called"
  /\ IF puter
     THEN /\ checkAuthStatus([store EXCEPT !.puterReady = TRUE])
          /\ UNCHANGED <<interval, timer>>
     ELSE /\ interval' = TRUE
          /\ timer' = TRUE
          /\ UNCHANGED <<store, apc, nAuth>>
  /\ UNCHANGED <<iclock, bridgeAtEnd>>
  /\ UNCHANGED <<puter, fvars, hvars, kv, kvLog, vvars, avars, rvars, nvars, lvars, evars>>

\* a polling period ends and the callback of the interval runs
intervalFires ==
  /\ interval
  /\ iclock < Polls
  /\ iclock' = iclock + 1
  /\ IF puter
     THEN /\ interval' = FALSE
          /\ checkAuthStatus([store EXCEPT !.puterReady = TRUE])
     ELSE UNCHANGED <<interval, store, apc, nAuth>>
  /\ UNCHANGED <<ipc, timer, bridgeAtEnd>>
  /\ UNCHANGED <<puter, fvars, hvars, kv, kvLog, vvars, avars, rvars, nvars, lvars, evars>>

\* a polling period ends after the interval was cleared
TimePasses ==
  /\ ~interval
  /\ timer
  /\ iclock < Polls
  /\ iclock' = iclock + 1
  /\ UNCHANGED <<ipc, interval, timer, apc, nAuth, bridgeAtEnd>>
  /\ UNCHANGED <<puter, store, fvars, hvars, kv, kvLog, vvars, avars, rvars, nvars, lvars, evars>>

\* the callback of the timeout runs, WaitMs after the call of init: every
\* polling period that ends before WaitMs has ended; the callback of the
\* interval that falls due at WaitMs itself may run before or after it
timeoutFires ==
  /\ timer
  /\ (iclock + 1) * PollMs >= WaitMs
  /\ timer' = FALSE
  /\ interval' = FALSE
  /\ bridgeAtEnd' = JBool(puter)
  /\ store' = IF ~puter THEN setError(store, TimeoutError) ELSE store
  /\ UNCHANGED <<ipc, iclock, apc, nAuth>>
  /\ UNCHANGED <<puter, fvars, hvars, kv, kvLog, vvars, avars, rvars, nvars, lvars, evars>>

\* puter.auth.isSignedIn() and, for a signed-in user, puter.auth.getUser()
\* return; no state is set between the two
AuthCheckReturns ==
  /\ apc = "is_signed_in"
  /\ apc' = "done"
  /\ \E isSignedIn \in BOOLEAN :
       store' = [store EXCEPT !.user = IF isSignedIn THEN SomeUser ELSE NoUser,
                              !.isAuthenticated = isSignedIn,
                              !.isLoading = FALSE]
  /\ UNCHANGED <<ipc, iclock, interval, timer, nAuth, bridgeAtEnd>>
  /\ UNCHANGED <<puter, fvars, hvars, kv, kvLog, vvars, avars, rvars, nvars, lvars, evars>>

\* puter.auth.isSignedIn() or puter.auth.getUser() throws
AuthCheckThrows ==
  /\ apc = "is_signed_in"
  /\ apc' = "done"
  /\ store' = setError(store, AuthCheckFailed)
  /\ UNCHANGED <<ipc, iclock, interval, timer, nAuth, bridgeAtEnd>>
  /\ UNCHANGED <<puter, fvars, hvars, kv, kvLog, vvars, avars, rvars, nvars, lvars, evars>>

(***************************************************************************)
(* The auth operations of the store a page calls: signIn, signOut,         *)
(* refreshUser.  One such call is in flight at a time; the checkAuthStatus *)
(* that init started runs next to it.                                      *)
(***************************************************************************)
SignInFailed == "Sign in failed"
SignOutFailed == "Sign out failed"
RefreshFailed == "Failed to refresh user"

\* an auth operation up to its first await: without window.puter it calls
\* setError and returns; with it, set({isLoading: true, error: null}) and
\* the call of the bridge named awaits
AuthOpCalled(op, awaits) ==
  IF ~puter
    THEN /\ store' = setError(store, NotAvailable)
         /\ UNCHANGED upc
    ELSE /\ store' = [store EXCEPT !.isLoading = TRUE, !.error = NoError]
         /\ upc' = [op |-> op, awaits |-> awaits]

signIn ==
  /\ upc = None
  /\ AuthOpCalled("signIn", "auth.signIn")
  /\ UNCHANGED <<wlast, search, authNav>>
  /\ UNCHANGED <<puter, fvars, hvars, kv, kvLog, vvars, rvars, nvars, lvars, evars, ivars>>

signOut ==
  /\ upc = None
  /\ AuthOpCalled("signOut", "auth.signOut")
  /\ UNCHANGED <<wlast, search, authNav>>
  /\ UNCHANGED <<puter, fvars, hvars, kv, kvLog, vvars, rvars, nvars, lvars, evars, ivars>>

refreshUser ==
  /\ upc = None
  /\ AuthOpCalled("refreshUser", "auth.getUser")
  /\ UNCHANGED <<wlast, search, authNav>>
  /\ UNCHANGED <<puter, fvars, hvars, kv, kvLog, vvars, rvars, nvars, lvars, evars, ivars>>

\* the call of the bridge an auth operation awaits returns.  signIn goes on
\* to checkAuthStatus, which runs up to its await of puter.auth.isSignedIn;
\* checkAuthStatus sets the user it was given, or none; signOut sets no
\* user; refreshUser sets the user.  None of them sets error.
AuthCallReturns ==
  /\ upc # None
  /\ IF upc.awaits = "auth.signIn"
       THEN /\ store' = [store EXCEPT !.isLoading = TRUE, !.error = NoError]
            /\ upc' = [op |-> "signIn", awaits |-> "auth.isSignedIn"]
     ELSE IF upc.awaits = "auth.isSignedIn"
       THEN /\ \E isSignedIn \in BOOLEAN :
                 store' = [store EXCEPT
                             !.user = IF isSignedIn THEN SomeUser ELSE NoUser,
                             !.isAuthenticated = isSignedIn,
                             !.isLoading = FALSE]
            /\ upc' = None
     ELSE IF upc.awaits = "auth.signOut"
       THEN /\ store' = [store EXCEPT !.user = NoUser, !.isAuthenticated = FALSE,
                                      !.isLoading = FALSE]
            /\ upc' = None
     ELSE /\ store' = [store EXCEPT !.user = SomeUser, !.isAuthenticated = TRUE,
                                    !.isLoading = FALSE]
          /\ upc' = None
  /\ UNCHANGED <<wlast, search, authNav>>
  /\ UNCHANGED <<puter, fvars, hvars, kv, kvLog, vvars, rvars, nvars, lvars, evars, ivars>>

\* the call of the bridge an auth operation awaits throws: the catch block
\* of the operation calls setError
AuthCallThrows ==
  /\ upc # None
  /\ store' = setError(store,
                 IF upc.awaits = "auth.signIn" THEN SignInFailed
                 ELSE IF upc.awaits = "auth.isSignedIn" THEN AuthCheckFailed
                 ELSE IF upc.awaits = "auth.signOut" THEN SignOutFailed
                 ELSE RefreshFailed)
  /\ upc' = None
  /\ UNCHANGED <<wlast, search, authNav>>
  /\ UNCHANGED <<puter, fvars, hvars, kv, kvLog, vvars, rvars, nvars, lvars, evars, ivars>>

(***************************************************************************)
(* The Auth page and the redirect of the viewer.  A URL text is a sequence *)
(* of pieces: "/" and ":" , their escapes "%2F" and "%3A", and words of    *)
(* characters that are never escaped.                                      *)
(***************************************************************************)
\* encodeURIComponent(s)
encodeURIComponent(s) ==
  [i \in DOMAIN s |-> IF s[i] = "/" THEN "%2F"
                      ELSE IF s[i] = ":" THEN "%3A"
                      ELSE s[i]]

\* new URLSearchParams(search).get("next") for the value as it is written
\* in the URL; null when the parameter is not there
SearchParam(written) ==
  IF written = None THEN JNull
  ELSE JStr([i \in DOMAIN written |-> IF written[i] = "%2F" THEN "/"
                                      ELSE IF written[i] = "%3A" THEN ":"
                                      ELSE written[i]])

\* the string of a URL text
RECURSIVE PathOf(_)
PathOf(s) == IF s = <<>> THEN "" ELSE s[1] \o PathOf(Tail(s))

\* the pieces of `/resume/${id}`
ResumePath(id) == <<"/", "resume", "/", id>>

\* faulty variant: the value of next is taken as it is
AuthNext_Unchecked(written) ==
  IF SearchParam(written) = JNull THEN <<"/">> ELSE SearchParam(written).s

\* the useMemo of the Auth page: next, "/" unless the value starts with "/"
AuthNext(written) ==
  LET value == SearchParam(written)
  IN IF value = JNull \/ value.s = <<>> \/ value.s[1] # "/"
       THEN <<"/">>
       ELSE value.s

\* the first effect of the viewer: the store has finished loading and no
\* user is signed in, so it navigates to /auth?next=<its own path>; the
\* viewer is unmounted and the cleanup of its second effect sets cancelled
ViewerRedirects ==
  /\ vpc # "unmounted"
  /\ ~cancelled
  /\ route = "/resume/" \o vid
  /\ ~store.isLoading
  /\ ~store.isAuthenticated
  /\ route' = "/auth"
  /\ search' = encodeURIComponent(ResumePath(vid))
  /\ cancelled' = TRUE
  /\ vsnap' = vpage
  /\ UNCHANGED <<vpc, vid, vdata, pageLoading, verror, resumeData, vfeedback,
                 resumeUrl, imageUrl, vawait>>
  /\ UNCHANGED <<wlast, upc, authNav>>
  /\ UNCHANGED <<puter, store, fvars, hflow, kv, kvLog, rvars, nvars, lvars, evars, ivars>>

\* the effect of the Auth page: navigate(next, {replace: true}) once the
\* store is ready, not loading and authenticated
AuthNavigates ==
  /\ route = "/auth"
  /\ store.puterReady
  /\ ~store.isLoading
  /\ store.isAuthenticated
  /\ route' = PathOf(AuthNext(search))
  /\ search' = None
  /\ authNav' = [target |-> AuthNext(search), written |-> search, store |-> store]
  /\ UNCHANGED <<wlast, upc>>
  /\ UNCHANGED <<puter, store, fvars, hflow, kv, kvLog, vvars, rvars, nvars, lvars, evars, ivars>>

\* the button "Sign In" of the Auth page, rendered when the store is ready,
\* not loading and not authenticated: auth.signIn()
handleSignIn ==
  /\ route = "/auth"
  /\ store.puterReady /\ ~store.isLoading /\ ~store.isAuthenticated
  /\ upc = None
  /\ AuthOpCalled("signIn", "auth.signIn")
  /\ UNCHANGED <<wlast, search, authNav>>
  /\ UNCHANGED <<puter, fvars, hvars, kv, kvLog, vvars, rvars, nvars, lvars, evars, ivars>>

\* the button "Sign Out" of the Auth page, rendered when the store is
\* ready, not loading and authenticated: auth.signOut()
handleSignOut ==
  /\ route = "/auth"
  /\ store.puterReady /\ ~store.isLoading /\ store.isAuthenticated
  /\ upc = None
  /\ AuthOpCalled("signOut", "auth.signOut")
  /\ UNCHANGED <<wlast, search, authNav>>
  /\ UNCHANGED <<puter, fvars, hvars, kv, kvLog, vvars, rvars, nvars, lvars, evars, ivars>>

(***************************************************************************)
(* The upload page: pickUploaded, extractFeedbackText, handleAnalyze       *)
(***************************************************************************)
PdfPath == Prose("/resumes/cv.pdf")
ImgPath == Prose("/resumes/cv.png")

FSItem(path) == JObj(("path" :> JStr(path)) @@ ("name" :> JStr(Prose("cv"))))

\* what puter.fs.upload may resolve to for a file stored at path
UploadResults(path) ==
  { FSItem(path), JArr(<<FSItem(path)>>), Obj1("file", FSItem(path)),
    Undef, JArr(<<>>), JObj(EmptyMap), Obj1("file", JObj(EmptyMap)),
    Obj1("path", JStr(<<>>)) }

\* what convertPdfToImage may resolve to
ConvertResults ==
  { Obj1("file", JBlob(TRUE, <<>>)),
    JObj(("file" :> JNull) @@ ("error" :> JStr(Prose("PDF could not be rendered")))),
    Obj1("file", JNull), JObj(EmptyMap), Undef }

JobParams ==
  { [companyName |-> Prose("Acme"), jobTitle |-> Prose("Data Engineer"),
     jobDescription |-> Prose("Build pipelines")],
    [companyName |-> <<>>, jobTitle |-> Prose("Analyst"),
     jobDescription |-> <<TWord("SQL"), TWs, TWord("Excel")>>] }

pickUploaded(uploaded) ==
  IF uploaded.t = "arr" THEN First(uploaded)
  ELSE IF ~Falsy(Get(uploaded, "file")) THEN Get(uploaded, "file")
  ELSE uploaded

\* prepareInstructions({ jobTitle, jobDescription })
buildInstructions(jobTitle, jobDescription) ==
  <<TWord("Rate the resume for: ")>> \o jobTitle \o <<TWs>> \o jobDescription
  \o <<TWs, TWord("Reply with JSON: overallScore, content, skills, structure, toneAndStyle, tips")>>

\* faulty variant: an object is serialized before its message is looked at
extractFeedbackText_StringifyFirst(feedback) ==
  IF Falsy(feedback) THEN <<>>
  ELSE IF feedback.t = "str" THEN feedback.s
  ELSE IF TypeofObject(feedback) THEN JSONstringify(feedback)
  ELSE <<>>

\* the string value of extractFeedbackText(feedback)
extractFeedbackText(feedback) ==
  LET content == Get(Get(feedback, "message"), "content")
  IN IF Falsy(feedback) THEN <<>>
     ELSE IF feedback.t = "str" THEN feedback.s
     ELSE IF content.t = "str" THEN content.s
     ELSE IF content.t = "arr" /\ Get(First(content), "text").t = "str"
       THEN Get(First(content), "text").s
     ELSE IF TypeofObject(feedback) THEN JSONstringify(feedback)
     ELSE <<>>

combinedMessage(p) ==
  Trim(<<TWs, TWord("Job Title: ")>> \o p.jobTitle
       \o <<TWs, TWord("Company: ")>> \o p.companyName
       \o <<TWs, TWs, TWord("Job Description:"), TWs>> \o p.jobDescription
       \o <<TWs, TWs, TWord("Instructions:"), TWs>>
       \o buildInstructions(p.jobTitle, p.jobDescription)
       \o <<TWs, TWs, TWord("Return ONLY valid JSON as instructed."), TWs>>)

KvKey(uuid) == "resume:" \o uuid

\* the object literal `data` of handleAnalyze
PlaceholderData(uuid, pdf, img, p) ==
  JObj(("id" :> JStr(Prose(uuid)))
       @@ ("resumePath" :> Get(pdf, "path"))
       @@ ("imagePath" :> Get(img, "path"))
       @@ ("companyName" :> JStr(p.companyName))
       @@ ("jobTitle" :> JStr(p.jobTitle))
       @@ ("jobDescription" :> JStr(p.jobDescription))
       @@ ("feedback" :> JStr(<<>>)))

\* faulty variant: the text of the feedback is stored, not the parsed value
WithFeedback_Text(data, v) == JObj(("feedback" :> JStr(JSONstringify(v))) @@ data.o)

\* faulty variant: the final record is built without the job description
WithFeedback_NoJobDescription(data, v) ==
  JObj(("feedback" :> v)
       @@ [k \in DOMAIN data.o \ {"jobDescription"} |-> data.o[k]])

\* data.feedback = v
WithFeedback(data, v) == JObj(("feedback" :> v) @@ data.o)

\* the heading the upload page renders under its title: statusText while
\* isProcessing, the invitation otherwise
PageHeading ==
  IF isProcessing THEN statusText
  ELSE Prose("Drop your resume for ATS + improvement tips")

\* handleAnalyze returns from inside its try block: `finally` runs
Finish(status) ==
  /\ statusText' = Prose(status)
  /\ isProcessing' = FALSE
  /\ hpc' = "done"

\* an awaited call rejects: the catch block of handleAnalyze, then `finally`
Catch ==
  /\ Finish("Error: Something went wrong during analysis.")
  /\ UNCHANGED <<hp, hpdf, hdata, kvPending, route, hlog>>

\* steps 5 on of handleAnalyze, up to the first await inside ai.feedback
\* (st is the store at this point)
AIStage(st, path, p) ==
  /\ statusText' = Prose("Analyzing...")
  /\ hpc' = "feedback"
  /\ FeedbackCall(st, path, combinedMessage(p))

\* handleSubmit calls handleAnalyze: up to the await of fs.upload([file])
Submit ==
  /\ hpc = "idle"
  /\ fpc = "idle"
  /\ \E p \in JobParams : hp' = p
  /\ IF puter
       THEN /\ statusText' = Prose("Uploading the PDF...")
            /\ isProcessing' = TRUE
            /\ hpc' = "upload_pdf"
            /\ UNCHANGED store
       ELSE \* the wrapper finds no bridge: setError, returns undefined
            /\ store' = setError(store, NotAvailable)
            /\ Finish("Error: Failed to upload PDF.")
  /\ UNCHANGED <<puter, fvars, hpdf, hdata, kvPending, route, hlog, kv, kvLog>>
  /\ UNCHANGED <<svars, vvars>>

\* fs.upload([file]) resolves; up to the await of convertPdfToImage
UploadPdfReturns ==
  /\ hpc = "upload_pdf"
  /\ \E raw \in UploadResults(PdfPath) :
       LET uploadedPdf == pickUploaded(raw)
       IN IF Falsy(Get(uploadedPdf, "path"))
            THEN /\ Finish("Error: Failed to upload PDF.")
                 /\ UNCHANGED <<hpdf, hlog>>
            ELSE /\ hpdf' = uploadedPdf
                 /\ hlog' = Append(hlog, "pdf_uploaded")
                 /\ statusText' = Prose("Converting to image...")
                 /\ hpc' = "convert"
                 /\ UNCHANGED isProcessing
  /\ UNCHANGED <<puter, store, fvars, hp, hdata, kvPending, route, kv, kvLog>>
  /\ UNCHANGED <<svars, vvars>>

UploadPdfThrows ==
  /\ hpc = "upload_pdf"
  /\ Catch
  /\ UNCHANGED <<puter, store, fvars, kv, kvLog>>
  /\ UNCHANGED <<svars, vvars>>

\* convertPdfToImage resolves; up to the await of fs.upload([imageFile])
ConvertReturns ==
  /\ hpc = "convert"
  /\ \E imageResult \in ConvertResults :
       LET imageFile == Coalesce(Get(imageResult, "file"), JNull)
           error == Get(imageResult, "error")
       IN IF Falsy(imageFile)
            THEN /\ statusText' = IF Falsy(error)
                                    THEN Prose("Error: Failed to convert PDF to image.")
                                    ELSE error.s
                 /\ isProcessing' = FALSE
                 /\ hpc' = "done"
                 /\ UNCHANGED <<store, hlog>>
            ELSE IF puter
            THEN /\ statusText' = Prose("Uploading the image...")
                 /\ hpc' = "upload_img"
                 /\ hlog' = Append(hlog, "converted")
                 /\ UNCHANGED <<store, isProcessing>>
            ELSE /\ store' = setError(store, NotAvailable)
                 /\ hlog' = Append(hlog, "converted")
                 /\ Finish("Error: Failed to upload image.")
  /\ UNCHANGED <<puter, fvars, hp, hpdf, hdata, kvPending, route, kv, kvLog>>
  /\ UNCHANGED <<svars, vvars>>

ConvertThrows ==
  /\ hpc = "convert"
  /\ Catch
  /\ UNCHANGED <<puter, store, fvars, kv, kvLog>>
  /\ UNCHANGED <<svars, vvars>>

\* faulty variant: the path of the uploaded image is not looked at
UploadImgReturns_NoPathCheck ==
  /\ hpc = "upload_img"
  /\ \E raw \in UploadResults(ImgPath), uuid \in UUIDs :
       LET uploadedImg == pickUploaded(raw)
           data == PlaceholderData(uuid, hpdf, uploadedImg, hp)
       IN /\ hdata' = data
          /\ statusText' = Prose("Preparing data...")
          /\ hpc' = "kv_placeholder"
          /\ hlog' = hlog \o <<"img_uploaded", "kv_placeholder_call">>
          /\ kvPending' = [key |-> KvKey(uuid), value |-> JSONstringify(data),
                           write |-> "placeholder"]
          /\ UNCHANGED <<store, fvars, isProcessing>>
  /\ UNCHANGED <<puter, hp, hpdf, route, kv, kvLog>>
  /\ UNCHANGED <<svars, vvars>>

\* faulty variant: the first kv.set is left out, the AI stage follows the
\* upload of the image
UploadImgReturns_NoPlaceholder ==
  /\ hpc = "upload_img"
  /\ \E raw \in UploadResults(ImgPath), uuid \in UUIDs :
       LET uploadedImg == pickUploaded(raw)
           data == PlaceholderData(uuid, hpdf, uploadedImg, hp)
       IN IF Falsy(Get(uploadedImg, "path"))
            THEN /\ Finish("Error: Failed to upload image.")
                 /\ UNCHANGED <<store, fvars, hdata, kvPending, hlog>>
            ELSE /\ hdata' = data
                 /\ UNCHANGED isProcessing
                 /\ AIStage(store, Get(hpdf, "path").s, hp)
                 /\ hlog' = hlog \o <<"img_uploaded", "ai_call">>
                 /\ UNCHANGED kvPending
  /\ UNCHANGED <<puter, hp, hpdf, route, kv, kvLog>>
  /\ UNCHANGED <<svars, vvars>>

\* fs.upload([imageFile]) resolves; up to the await of the first kv.set
UploadImgReturns ==
  /\ hpc = "upload_img"
  /\ \E raw \in UploadResults(ImgPath), uuid \in UUIDs :
       LET uploadedImg == pickUploaded(raw)
           data == PlaceholderData(uuid, hpdf, uploadedImg, hp)
       IN IF Falsy(Get(uploadedImg, "path"))
            THEN /\ Finish("Error: Failed to upload image.")
                 /\ UNCHANGED <<store, fvars, hdata, kvPending, hlog>>
            ELSE /\ hdata' = data
                 /\ UNCHANGED isProcessing
                 /\ IF puter
                      THEN /\ statusText' = Prose("Preparing data...")
                           /\ hpc' = "kv_placeholder"
                           /\ hlog' = hlog \o <<"img_uploaded", "kv_placeholder_call">>
                           /\ kvPending' = [key |-> KvKey(uuid), value |-> JSONstringify(data),
                                            write |-> "placeholder"]
                           /\ UNCHANGED <<store, fvars>>
                      ELSE \* kv.set finds no bridge: setError, returns undefined
                           /\ AIStage(setError(store, NotAvailable), Get(hpdf, "path").s, hp)
                           /\ hlog' = hlog \o <<"img_uploaded", "ai_call">>
                           /\ UNCHANGED kvPending
  /\ UNCHANGED <<puter, hp, hpdf, route, kv, kvLog>>
  /\ UNCHANGED <<svars, vvars>>

UploadImgThrows ==
  /\ hpc = "upload_img"
  /\ Catch
  /\ UNCHANGED <<puter, store, fvars, kv, kvLog>>
  /\ UNCHANGED <<svars, vvars>>

\* puter.kv.set resolves to true after storing the value, or to false
KvStore(stored) ==
  /\ kv' = IF stored
             THEN [k \in DOMAIN kv \cup {kvPending.key} |->
                     IF k = kvPending.key THEN kvPending.value ELSE kv[k]]
             ELSE kv
  /\ kvLog' = IF stored THEN Append(kvLog, kvPending) ELSE kvLog
  /\ kvPending' = None

\* the first kv.set resolves; then the AI stage up to its first await
KvPlaceholderReturns ==
  /\ hpc = "kv_placeholder"
  /\ \E stored \in BOOLEAN : KvStore(stored)
  /\ AIStage(store, Get(hpdf, "path").s, hp)
  /\ hlog' = hlog \o <<"kv_placeholder_done", "ai_call">>
  /\ UNCHANGED <<puter, hp, hpdf, hdata, isProcessing, route>>
  /\ UNCHANGED <<svars, vvars>>

KvPlaceholderThrows ==
  /\ hpc = "kv_placeholder"
  /\ Finish("Error: Something went wrong during analysis.")
  /\ kvPending' = None
  /\ UNCHANGED <<puter, store, fvars, hp, hpdf, hdata, route, hlog, kv, kvLog>>
  /\ UNCHANGED <<svars, vvars>>

\* `await ai.feedback(...)` returns or throws; up to the await of the second
\* kv.set
FeedbackSettled ==
  /\ hpc = "feedback"
  /\ fpc = "settled"
  /\ IF fres.kind = "rejected"
       THEN /\ Finish("Error: Something went wrong during analysis.")
            /\ hlog' = Append(hlog, "ai_threw")
            /\ UNCHANGED <<store, hdata, kvPending, route>>
       ELSE
       LET feedback == fres.v
           feedbackText == extractFeedbackText(feedback)
           parsed == JSONparse(feedbackText)
           data == IF parsed.ok THEN WithFeedback(hdata, parsed.v)
                   ELSE WithFeedback(hdata, feedback)
       IN IF Falsy(feedback)
            THEN /\ Finish("Error: Failed to get feedback from AI.")
                 /\ hlog' = Append(hlog, "ai_returned")
                 /\ UNCHANGED <<store, hdata, kvPending, route>>
          ELSE IF feedbackText = <<>>
            THEN /\ Finish("Error: AI returned empty feedback.")
                 /\ hlog' = Append(hlog, "ai_returned")
                 /\ UNCHANGED <<store, hdata, kvPending, route>>
          ELSE IF ~parsed.ok /\ ~TypeofObject(feedback)
            THEN /\ Finish("Error: AI response was not valid JSON.")
                 /\ hlog' = Append(hlog, "ai_returned")
                 /\ UNCHANGED <<store, hdata, kvPending, route>>
          ELSE /\ hdata' = data
               /\ IF puter
                    THEN /\ hpc' = "kv_final"
                         /\ hlog' = hlog \o <<"ai_returned", "kv_final_call">>
                         /\ kvPending' = [key |-> KvKey(Get(hdata, "id").s[1].w),
                                          value |-> JSONstringify(data),
                                          write |-> "final"]
                         /\ UNCHANGED <<store, statusText, isProcessing, route>>
                    ELSE \* kv.set finds no bridge: setError, returns undefined
                         /\ store' = setError(store, NotAvailable)
                         /\ statusText' = Prose("Analysis complete. Redirecting...")
                         /\ isProcessing' = FALSE
                         /\ hpc' = "timer"
                         /\ hlog' = Append(hlog, "ai_returned")
                         /\ UNCHANGED <<kvPending, route>>
  /\ UNCHANGED <<puter, fvars, hp, hpdf, kv, kvLog>>
  /\ UNCHANGED <<svars, vvars>>

\* the second kv.set resolves; setTimeout(navigate, 800); `finally`
KvFinalReturns ==
  /\ hpc = "kv_final"
  /\ \E stored \in BOOLEAN : KvStore(stored)
  /\ statusText' = Prose("Analysis complete. Redirecting...")
  /\ isProcessing' = FALSE
  /\ hpc' = "timer"
  /\ hlog' = Append(hlog, "kv_final_done")
  /\ UNCHANGED <<puter, store, fvars, hp, hpdf, hdata, route>>
  /\ UNCHANGED <<svars, vvars>>

KvFinalThrows ==
  /\ hpc = "kv_final"
  /\ Finish("Error: Something went wrong during analysis.")
  /\ kvPending' = None
  /\ UNCHANGED <<puter, store, fvars, hp, hpdf, hdata, route, hlog, kv, kvLog>>
  /\ UNCHANGED <<svars, vvars>>

\* the timer set by handleAnalyze fires: navigate(`/resume/${uuid}`)
NavigateTimer ==
  /\ hpc = "timer"
  /\ route' = "/resume/" \o Get(hdata, "id").s[1].w
  /\ hpc' = "done"
  /\ UNCHANGED <<puter, store, fvars, hp, hpdf, hdata, kvPending, statusText,
                 isProcessing, hlog, kv, kvLog>>
  /\ UNCHANGED <<svars, vvars>>

(***************************************************************************)
(* The viewer page: loadResume                                             *)
(***************************************************************************)
NoRecordError == "No saved resume data found for this id."
PdfError == "Failed to load resume PDF."
ImageError == "Failed to load resume image."
LoadFailedError == "Failed to load resume feedback."

\* the object URLs URL.createObjectURL returns for the two blobs
PdfUrl == "blob:pdf"
ImgUrl == "blob:img"

\* the local data after normalizeFeedback(data.feedback), which assigns to
\* the object data.feedback is
DataAfter(d) ==
  IF Get(d, "feedback").t = "obj"
    THEN SetKey(d, "feedback", InputAfter(Get(d, "feedback")))
    ELSE d

\* loadResume returns from inside its try block after setError(msg), which
\* no test of cancelled precedes: `finally` runs
LoadEnds(msg) ==
  /\ verror' = msg
  /\ pageLoading' = IF cancelled THEN pageLoading ELSE FALSE
  /\ vpc' = "done"
  /\ UNCHANGED <<vid, cancelled, resumeData, vfeedback, resumeUrl, imageUrl>>

\* faulty variant: no catch block, the state of the page is left as it is
LoadCatch_Unhandled ==
  /\ vpc' = "done"
  /\ UNCHANGED <<vid, vdata, cancelled, pageLoading, verror, resumeData, vfeedback,
                 resumeUrl, imageUrl>>

\* something inside the try block of loadResume throws: its catch block,
\* then `finally`
LoadCatch ==
  /\ verror' = IF cancelled THEN verror ELSE LoadFailedError
  /\ pageLoading' = IF cancelled THEN pageLoading ELSE FALSE
  /\ vpc' = "done"
  /\ UNCHANGED <<vid, vdata, cancelled, resumeData, vfeedback, resumeUrl, imageUrl>>

\* the viewer is mounted on /resume/<id>: useState, then the effect calls
\* loadResume, which runs up to the await of kv.get
ViewerMounts ==
  /\ vpc = "unmounted"
  /\ \E id \in UUIDs :
       /\ route = "/resume/" \o id
       /\ vid' = id
  /\ cancelled' = FALSE
  /\ IF puter
       THEN /\ vpc' = "kv_get"
            /\ pageLoading' = TRUE
            /\ verror' = ""
            /\ UNCHANGED store
       ELSE \* getKV finds no bridge: setError, returns undefined; `finally`
            /\ store' = setError(store, NotAvailable)
            /\ vpc' = "done"
            /\ pageLoading' = FALSE
            /\ verror' = NoRecordError
  /\ vawait' = "none"
  /\ vsnap' = None
  /\ UNCHANGED <<vdata, resumeData, vfeedback, resumeUrl, imageUrl>>
  /\ UNCHANGED <<puter, fvars, hvars, kv, kvLog, svars>>

\* kv.get resolves to the stored string or null; JSON.parse; up to the
\* await of fs.read(data.resumePath)
KvGetReturns ==
  /\ vpc = "kv_get"
  /\ LET raw == IF KvKey(vid) \in DOMAIN kv THEN JStr(kv[KvKey(vid)]) ELSE JNull
         parsed == JSONparse(raw.s)
     IN IF Falsy(raw)
          THEN LoadEnds(NoRecordError) /\ UNCHANGED vdata
        ELSE IF ~parsed.ok \/ Nullish(parsed.v)
          THEN \* JSON.parse throws, or data.resumePath does
               LoadCatch
        ELSE /\ vdata' = parsed.v
             /\ vpc' = "read_pdf"
             /\ UNCHANGED <<vid, cancelled, pageLoading, verror, resumeData, vfeedback,
                            resumeUrl, imageUrl>>
  /\ vawait' = IF KvKey(vid) \in DOMAIN kv THEN "kv_value" ELSE "kv_null"
  /\ UNCHANGED vsnap
  /\ UNCHANGED <<puter, store, fvars, hvars, kv, kvLog, svars>>

KvGetThrows ==
  /\ vpc = "kv_get"
  /\ vawait' = "kv_threw"
  /\ UNCHANGED vsnap
  /\ LoadCatch
  /\ UNCHANGED <<puter, store, fvars, hvars, kv, kvLog, svars>>

\* fs.read(data.resumePath) resolves to nothing or to a blob; up to the
\* await of fs.read(data.imagePath)
ReadPdfReturns ==
  /\ vpc = "read_pdf"
  /\ \E pdfBlobRaw \in {Undef} \cup Blobs :
       IF Falsy(pdfBlobRaw)
         THEN LoadEnds(PdfError) /\ UNCHANGED vdata /\ vawait' = "pdf_nothing"
         ELSE /\ vpc' = "read_img"
              /\ vawait' = "pdf_blob"
              /\ UNCHANGED <<vid, vdata, cancelled, pageLoading, verror, resumeData,
                             vfeedback, resumeUrl, imageUrl>>
  /\ UNCHANGED vsnap
  /\ UNCHANGED <<puter, store, fvars, hvars, kv, kvLog, svars>>

ReadPdfThrows ==
  /\ vpc = "read_pdf"
  /\ vawait' = "pdf_threw"
  /\ UNCHANGED vsnap
  /\ LoadCatch
  /\ UNCHANGED <<puter, store, fvars, hvars, kv, kvLog, svars>>

\* fs.read(data.imagePath) resolves to nothing or to a blob;
\* normalizeFeedback(data.feedback); the state updates unless cancelled;
\* `finally`
ReadImgReturns ==
  /\ vpc = "read_img"
  /\ \E imgBlobRaw \in {Undef} \cup Blobs :
       /\ vawait' = IF Falsy(imgBlobRaw) THEN "img_nothing" ELSE "img_blob"
       /\ IF Falsy(imgBlobRaw)
            THEN LoadEnds(ImageError) /\ UNCHANGED vdata
          ELSE IF cancelled
            THEN /\ vpc' = "done"
                 /\ vdata' = DataAfter(vdata)
                 /\ UNCHANGED <<vid, cancelled, pageLoading, verror, resumeData,
                                vfeedback, resumeUrl, imageUrl>>
          ELSE /\ resumeData' = DataAfter(vdata)
               /\ vdata' = DataAfter(vdata)
               /\ resumeUrl' = PdfUrl
               /\ imageUrl' = ImgUrl
               /\ vfeedback' = normalizeFeedbackB(Get(vdata, "feedback"))
               /\ pageLoading' = FALSE
               /\ vpc' = "done"
               /\ UNCHANGED <<vid, cancelled, verror>>
  /\ UNCHANGED vsnap
  /\ UNCHANGED <<puter, store, fvars, hvars, kv, kvLog, svars>>

ReadImgThrows ==
  /\ vpc = "read_img"
  /\ vawait' = "img_threw"
  /\ UNCHANGED vsnap
  /\ LoadCatch
  /\ UNCHANGED <<puter, store, fvars, hvars, kv, kvLog, svars>>

\* the user leaves the viewer by its link to "/": the cleanup of the effect
\* sets cancelled
ViewerUnmounts ==
  /\ vpc # "unmounted"
  /\ ~cancelled
  /\ cancelled' = TRUE
  /\ route' = "/"
  /\ vsnap' = vpage
  /\ UNCHANGED <<vpc, vid, vdata, pageLoading, verror, resumeData, vfeedback,
                 resumeUrl, imageUrl, vawait>>
  /\ UNCHANGED <<puter, store, fvars, hflow, kv, kvLog, svars>>

\* the location changes to /resume/<another id> while the viewer stays
\* mounted and its load has ended: the cleanup of the effect sets the
\* cancelled of that load, the effect runs again with a new cancelled and
\* calls loadResume, which runs up to the await of kv.get.  No state of the
\* page but pageLoading and error is set.
ViewerIdChanges ==
  /\ vpc = "done"
  /\ ~cancelled
  /\ route = "/resume/" \o vid
  /\ \E id \in UUIDs \ {vid} :
       /\ route' = "/resume/" \o id
       /\ vid' = id
  /\ cancelled' = FALSE
  /\ IF puter
       THEN /\ vpc' = "kv_get"
            /\ pageLoading' = TRUE
            /\ verror' = ""
            /\ UNCHANGED store
       ELSE \* getKV finds no bridge: setError, returns undefined; `finally`
            /\ store' = setError(store, NotAvailable)
            /\ vpc' = "done"
            /\ pageLoading' = FALSE
            /\ verror' = NoRecordError
  /\ vawait' = "none"
  /\ vsnap' = None
  /\ UNCHANGED <<vdata, resumeData, vfeedback, resumeUrl, imageUrl>>
  /\ UNCHANGED <<puter, fvars, hflow, kv, kvLog, svars>>

\* what the viewer renders under the resume once loading is over: the
\* summary and details of feedback, or the note that there is none
FeedbackPanel ==
  IF ~pageLoading /\ ~Falsy(vfeedback) THEN "summary"
  ELSE IF ~pageLoading /\ Falsy(vfeedback) /\ verror = "" THEN "not available"
  ELSE "none"

(***************************************************************************)
(* The first viewer page: load                                             *)
(***************************************************************************)
\* faulty variant: normalizeFeedback is called once
loadFeedback_Once(fb) == normalizeFeedbackA(fb)

\* what load makes of parsed.feedback: normalizeFeedback, and again on the
\* feedback of the result when the result is an object with a truthy one
loadFeedback(fb) ==
  LET once == normalizeFeedbackA(fb)
  IN IF TypeofObject(once) /\ ~Falsy(Get(once, "feedback"))
       THEN normalizeFeedbackA(Get(once, "feedback"))
       ELSE once

\* load returns from inside its try block after setError(msg): `finally`
loadEnds(msg) ==
  /\ lerror' = msg
  /\ loading' = FALSE
  /\ lpc' = "done"
  /\ UNCHANGED <<lid, lmounted, ldata>>

\* something inside the try block of load throws: its catch block, `finally`
loadCatch == loadEnds(LoadFailedError)

\* the first viewer is mounted on /resume/<id>: useState, then the effect
\* calls load, which runs up to the await of kv.get
loadStarts ==
  /\ lpc = "unmounted"
  /\ \E id \in UUIDs :
       /\ route = "/resume/" \o id
       /\ lid' = id
  /\ lmounted' = TRUE
  /\ IF puter
       THEN /\ lpc' = "kv_get"
            /\ loading' = TRUE
            /\ lerror' = ""
            /\ UNCHANGED store
       ELSE \* getKV finds no bridge: setError, returns undefined; `finally`
            /\ store' = setError(store, NotAvailable)
            /\ lpc' = "done"
            /\ loading' = FALSE
            /\ lerror' = NoRecordError
  /\ lawait' = "none"
  /\ lsnap' = None
  /\ UNCHANGED ldata
  /\ UNCHANGED <<puter, fvars, hvars, kv, kvLog, vvars, avars, rvars, nvars, evars, ivars>>

\* kv.get resolves to the stored string or null; JSON.parse; the feedback is
\* normalized; setData; `finally`
loadKvGetReturns ==
  /\ lpc = "kv_get"
  /\ LET raw == IF KvKey(lid) \in DOMAIN kv THEN JStr(kv[KvKey(lid)]) ELSE JNull
         parsed == JSONparse(raw.s)
     IN IF Falsy(raw)
          THEN loadEnds(NoRecordError)
        ELSE IF ~parsed.ok \/ parsed.v.t # "obj"
          THEN \* JSON.parse throws, or the assignment to parsed.feedback
               \* does: parsed is null or a primitive
               loadCatch
        ELSE /\ ldata' = WithFeedback(parsed.v, loadFeedback(Get(parsed.v, "feedback")))
             /\ loading' = FALSE
             /\ lpc' = "done"
             /\ UNCHANGED <<lid, lmounted, lerror>>
  /\ lawait' = IF KvKey(lid) \in DOMAIN kv THEN "kv_value" ELSE "kv_null"
  /\ UNCHANGED lsnap
  /\ UNCHANGED <<puter, store, fvars, hvars, kv, kvLog, vvars, avars, rvars, nvars, evars, ivars>>

loadKvGetThrows ==
  /\ lpc = "kv_get"
  /\ lawait' = "kv_threw"
  /\ UNCHANGED lsnap
  /\ loadCatch
  /\ UNCHANGED <<puter, store, fvars, hvars, kv, kvLog, vvars, avars, rvars, nvars, evars, ivars>>

\* the location changes to /resume/<another id> while the first viewer
\* stays mounted and its load has ended: the effect runs again and calls
\* load, which runs up to the await of kv.get
loadIdChanges ==
  /\ lpc = "done"
  /\ lmounted
  /\ route = "/resume/" \o lid
  /\ \E id \in UUIDs \ {lid} :
       /\ route' = "/resume/" \o id
       /\ lid' = id
  /\ IF puter
       THEN /\ lpc' = "kv_get"
            /\ loading' = TRUE
            /\ lerror' = ""
            /\ UNCHANGED store
       ELSE \* getKV finds no bridge: setError, returns undefined; `finally`
            /\ store' = setError(store, NotAvailable)
            /\ lpc' = "done"
            /\ loading' = FALSE
            /\ lerror' = NoRecordError
  /\ lawait' = "none"
  /\ lsnap' = None
  /\ UNCHANGED <<lmounted, ldata>>
  /\ UNCHANGED <<puter, fvars, hflow, kv, kvLog, vvars, avars, rvars, nvars, evars, ivars>>

\* the user leaves the first viewer by its button "Upload another"
loadUnmounts ==
  /\ lmounted
  /\ lmounted' = FALSE
  /\ route' = "/upload"
  /\ lsnap' = lpage
  /\ UNCHANGED <<lpc, lid, loading, ldata, lerror, lawait>>
  /\ UNCHANGED <<puter, store, fvars, hflow, kv, kvLog, vvars, avars, rvars, nvars, evars, ivars>>

vars == <<puter, store, fvars, hvars, kv, kvLog, svars, vvars>>

\* the viewer is not mounted; its state is what useState will give it
NoViewer ==
  /\ vpc = "unmounted"
  /\ vid = ""
  /\ vdata = None
  /\ cancelled = FALSE
  /\ pageLoading = TRUE
  /\ verror = ""
  /\ resumeData = JNull
  /\ vfeedback = JNull
  /\ resumeUrl = ""
  /\ imageUrl = ""
  /\ vawait = "none"
  /\ vsnap = None

\* the first viewer is not mounted; its state is what useState will give it
NoViewer1 ==
  /\ lpc = "unmounted"
  /\ lid = ""
  /\ lmounted = FALSE
  /\ loading = TRUE
  /\ ldata = JNull
  /\ lerror = ""
  /\ lawait = "none"
  /\ lsnap = None

\* init has not been called
NoInit ==
  /\ ipc = "idle"
  /\ iclock = 0
  /\ interval = FALSE
  /\ timer = FALSE
  /\ apc = "idle"
  /\ nAuth = 0
  /\ bridgeAtEnd = None
  /\ wlast = None
  /\ upc = None
  /\ authNav = None

\* the store as created, no call of ai.feedback and no submission yet
InitIdle ==
  /\ store = StoreInit
  /\ fpc = "idle"
  /\ fargs = None
  /\ fpath = "none"
  /\ ftry = "none"
  /\ fileText = None
  /\ ollamaReq = None
  /\ fres = NoOutcome
  /\ fprimary = NoOutcome
  /\ fdata = None
  /\ nChat = 0
  /\ nOllama = 0
  /\ nReadFile = 0
  /\ nFsRead = 0
  /\ hpc = "idle"
  /\ hp = None
  /\ hpdf = None
  /\ hdata = None
  /\ kvPending = None
  /\ statusText = <<>>
  /\ isProcessing = FALSE
  /\ kvLog = <<>>
  /\ hlog = <<>>
  /\ NoViewer
  /\ NoViewer1
  /\ NoInit

\* the upload page is open and nothing is stored
InitFlow ==
  /\ InitIdle
  /\ route = "/upload"
  /\ search = None
  /\ kv = [k \in {} |-> <<>>]

\* a record as handleAnalyze builds it, with fb as its feedback
SavedRecord(fb) ==
  WithFeedback(PlaceholderData("u1", FSItem(PdfPath), FSItem(ImgPath),
                               [companyName |-> Prose("Acme"),
                                jobTitle |-> Prose("Data Engineer"),
                                jobDescription |-> Prose("Build pipelines")]),
               fb)

\* the strings kv.get may find under resume:u1: records, a record without
\* feedback, the empty string, a text that is no JSON, the text null
SavedRaws ==
  {JSONstringify(SavedRecord(fb)) : fb \in StoredFeedbacks}
  \cup { JSONstringify(Obj1("id", JStr(Prose("u1")))),
         <<>>, NotJsonText, <<TLit("null")>> }

\* no value given to normalizeFeedback
NoNorm ==
  /\ nIn = None /\ nOnce = None /\ nTwice = None /\ nSer = None /\ nAfter = None
  /\ eIn = None /\ eOut = None

Init ==
  /\ puter \in BOOLEAN
  /\ InitFlow
  /\ rIn = None
  /\ rOut = None
  /\ NoNorm

\* one body on its own, nothing else running
InitReply ==
  /\ puter = FALSE
  /\ InitFlow
  /\ rIn \in ReplyBodies
  /\ rOut = None
  /\ NoNorm

\* ollamaFeedback handles the body rIn of a 2xx reply
ApplyOllamaRecord ==
  /\ rIn # None
  /\ rOut = None
  /\ \E uuid \in UUIDs : rOut' = OllamaRecord(rIn, uuid)
  /\ UNCHANGED <<puter, store, fvars, hvars, kv, kvLog, vvars, avars, lvars, ivars, evars, rIn, nvars>>

\* a browser opened on /resume/u1: nothing or one string stored under
\* resume:u1 by an earlier session, no submission in this one
InitView ==
  /\ puter \in BOOLEAN
  /\ InitIdle
  /\ route = "/resume/u1"
  /\ search = None
  /\ kv \in {[k \in {} |-> <<>>]} \cup {(KvKey("u1") :> raw) : raw \in SavedRaws}
  /\ rIn = None
  /\ rOut = None
  /\ NoNorm

\* one value on its own, nothing else running
InitNorm ==
  /\ puter = FALSE
  /\ InitFlow
  /\ rIn = None
  /\ rOut = None
  /\ nIn \in NormInputs
  /\ nOnce = None /\ nTwice = None /\ nSer = None /\ nAfter = None
  /\ eIn = None /\ eOut = None

\* normalizeFeedback(nIn)
NormalizeOnce ==
  /\ nIn # None /\ nOnce = None
  /\ nOnce' = [a |-> normalizeFeedbackA(nIn), b |-> normalizeFeedbackB(nIn)]
  /\ nAfter' = InputAfter(nIn)
  /\ UNCHANGED <<puter, store, fvars, hvars, kv, kvLog, vvars, avars, lvars, ivars, evars, rvars, nIn, nTwice, nSer>>

\* normalizeFeedback(normalizeFeedback(nIn))
NormalizeTwice ==
  /\ nOnce # None /\ nTwice = None
  /\ nTwice' = [a |-> normalizeFeedbackA(nOnce.a), b |-> normalizeFeedbackB(nOnce.b)]
  /\ UNCHANGED <<puter, store, fvars, hvars, kv, kvLog, vvars, avars, lvars, ivars, evars, rvars, nIn, nOnce, nSer, nAfter>>

\* normalizeFeedback(JSON.stringify(nIn)), for a value JSON.stringify gives
\* a string for
NormalizeSerialized ==
  /\ nIn # None /\ nIn.t # "undef" /\ nSer = None
  /\ nSer' = [a |-> normalizeFeedbackA(JStr(JSONstringify(nIn))),
              b |-> normalizeFeedbackB(JStr(JSONstringify(nIn)))]
  /\ UNCHANGED <<puter, store, fvars, hvars, kv, kvLog, vvars, avars, lvars, ivars, evars, rvars, nIn, nOnce, nTwice, nAfter>>

NextNorm == NormalizeOnce \/ NormalizeTwice \/ NormalizeSerialized

\* one reply on its own, nothing else running
InitExtract ==
  /\ puter = FALSE
  /\ InitFlow
  /\ rIn = None
  /\ rOut = None
  /\ nIn = None /\ nOnce = None /\ nTwice = None /\ nSer = None /\ nAfter = None
  /\ eIn \in ExtractInputs
  /\ eOut = None

\* extractFeedbackText(eIn)
ApplyExtract ==
  /\ eIn # None
  /\ eOut = None
  /\ eOut' = JStr(extractFeedbackText(eIn))
  /\ UNCHANGED <<puter, store, fvars, hvars, kv, kvLog, vvars, avars, lvars, ivars, rvars, nvars, eIn>>

NextView ==
  \/ BridgeLoads
  \/ ViewerMounts
  \/ KvGetReturns
  \/ KvGetThrows
  \/ ReadPdfReturns
  \/ ReadPdfThrows
  \/ ReadImgReturns
  \/ ReadImgThrows
  \/ ViewerUnmounts
  \/ loadStarts
  \/ loadKvGetReturns
  \/ loadKvGetThrows
  \/ loadUnmounts

Next ==
  \/ DirectCall
  \/ ChatReturns
  \/ ChatThrows
  \/ ReadReturns
  \/ ReadThrows
  \/ OllamaNetworkFails
  \/ OllamaNon2xx
  \/ OllamaBodyNotJSON
  \/ OllamaReplies
  \/ BridgeLoads
  \/ Submit
  \/ UploadPdfReturns
  \/ UploadPdfThrows
  \/ ConvertReturns
  \/ ConvertThrows
  \/ UploadImgReturns
  \/ UploadImgThrows
  \/ KvPlaceholderReturns
  \/ KvPlaceholderThrows
  \/ FeedbackSettled
  \/ KvFinalReturns
  \/ KvFinalThrows
  \/ NavigateTimer
  \/ ViewerMounts
  \/ KvGetReturns
  \/ KvGetThrows
  \/ ReadPdfReturns
  \/ ReadPdfThrows
  \/ ReadImgReturns
  \/ ReadImgThrows
  \/ ViewerUnmounts

Spec == Init /\ [][Next]_vars

SpecReply == InitReply /\ [][ApplyOllamaRecord]_vars

SpecNorm == InitNorm /\ [][NextNorm]_vars

SpecView == InitView /\ [][NextView]_vars

SpecExtract == InitExtract /\ [][ApplyExtract]_vars

\* the application starts: init is called once, the script of the bridge
\* loads at any moment or never
NextInit ==
  \/ init
  \/ intervalFires
  \/ TimePasses
  \/ timeoutFires
  \/ BridgeLoads
  \/ AuthCheckReturns
  \/ AuthCheckThrows

SpecInit == Init /\ [][NextInit]_vars

\* a browser opened on /resume/u1 that goes on to other ids
NextRoute ==
  \/ BridgeLoads
  \/ ViewerMounts
  \/ KvGetReturns
  \/ KvGetThrows
  \/ ReadPdfReturns
  \/ ReadPdfThrows
  \/ ReadImgReturns
  \/ ReadImgThrows
  \/ ViewerUnmounts
  \/ ViewerIdChanges
  \/ loadStarts
  \/ loadKvGetReturns
  \/ loadKvGetThrows
  \/ loadUnmounts
  \/ loadIdChanges

SpecRoute == InitView /\ [][NextRoute]_vars

\* pages call the wrappers and ai.feedback; the bridge loads at any moment
\* or never
NextWrap ==
  \/ WrapperCalled
  \/ BridgeLoads
  \/ DirectCall
  \/ ChatReturns
  \/ ChatThrows
  \/ ReadReturns
  \/ ReadThrows
  \/ OllamaNetworkFails
  \/ OllamaNon2xx
  \/ OllamaBodyNotJSON
  \/ OllamaReplies

SpecWrap == Init /\ [][NextWrap]_vars

\* the application starts and pages call the auth operations and the
\* wrappers of the store, in any order
NextStore ==
  \/ init
  \/ intervalFires
  \/ TimePasses
  \/ timeoutFires
  \/ BridgeLoads
  \/ AuthCheckReturns
  \/ AuthCheckThrows
  \/ signIn
  \/ signOut
  \/ refreshUser
  \/ AuthCallReturns
  \/ AuthCallThrows
  \/ WrapperCalled

SpecStore == Init /\ [][NextStore]_vars

\* the values of next a visitor may arrive at /auth with, as written in the
\* URL: none, empty, the path of a viewer escaped and as it is, a path
\* without its first "/", a URL of another site, and "//" before a host
NextsWritten ==
  { None, <<>>,
    encodeURIComponent(ResumePath("u2")),
    ResumePath("u2"),
    <<"resume", "%2F", "u1">>,
    <<"https", "%3A", "%2F", "%2F", "evil.example">>,
    <<"%2F", "%2F", "evil.example">> }

\* a visitor opens /resume/u1, or /auth with some next; nothing or one
\* record is stored under resume:u1
InitAuth ==
  /\ puter \in BOOLEAN
  /\ InitIdle
  /\ \/ route = "/resume/u1" /\ search = None
     \/ route = "/auth" /\ search \in NextsWritten
  /\ kv \in {[k \in {} |-> <<>>],
             (KvKey("u1") :> JSONstringify(SavedRecord(JStr(<<>>))))}
  /\ rIn = None
  /\ rOut = None
  /\ NoNorm

NextAuth ==
  \/ init
  \/ intervalFires
  \/ TimePasses
  \/ timeoutFires
  \/ BridgeLoads
  \/ AuthCheckReturns
  \/ AuthCheckThrows
  \/ handleSignIn
  \/ handleSignOut
  \/ AuthCallReturns
  \/ AuthCallThrows
  \/ AuthNavigates
  \/ ViewerMounts
  \/ KvGetReturns
  \/ KvGetThrows
  \/ ReadPdfReturns
  \/ ReadPdfThrows
  \/ ReadImgReturns
  \/ ReadImgThrows
  \/ ViewerRedirects

SpecAuth == InitAuth /\ [][NextAuth]_vars

(***************************************************************************)
(* Properties of ai.feedback                                               *)
(***************************************************************************)
\* ai.feedback took the secondary path
OnSecondaryPath == fpath \in {"unavailable", "threw"}

Settled == fpc = "settled"

\* v is not null and not undefined
Present(v) == ~Nullish(v)

\* an object with the keys of a FeedbackRecord that toAIResponseFromJSON sets
RecordShaped(v) ==
  v.t = "obj" /\ ({"overallScore", "tips"} \cup Categories) \subseteq DOMAIN v.o

\* the errors ollamaFeedback throws
OllamaErrors == {"fetch failed", "Ollama request failed", "body is not JSON"}

\* C1 (as claimed): in one call of ai.feedback the primary chat call is issued
\* at most once and the request to Ollama is issued at most once.
C1_OneAttemptPerProvider == nChat <= 1 /\ nOllama <= 1

C7_PrimaryFailureFallsBack ==
  (fprimary.kind = "threw" /\ Settled) =>
    /\ nOllama >= 1
    /\ fres.kind = "rejected" => (fres.err \in OllamaErrors /\ fres.err # fprimary.err)

\* C7 witness: puter.ai.chat threw, both requests to Ollama failed and
\* ai.feedback rejected
C7_Witness ==
  /\ fprimary.kind = "threw" /\ Settled
  /\ nOllama = 2
  /\ fres.kind = "rejected"

\* C8: when puter.ai.chat returned, ai.feedback resolves with exactly the
\* reply, and no request to Ollama, no readFile and no puter.fs.read was made
\* in the call.
C8_PrimaryReplyReturned ==
  (fprimary.kind = "returned" /\ Settled) =>
    /\ fres = Resolved(fprimary.v)
    /\ nOllama = 0 /\ nReadFile = 0 /\ nFsRead = 0

\* C8 witness: puter.ai.chat returned a message object and ai.feedback
\* settled
C8_Witness ==
  /\ fprimary.kind = "returned" /\ Settled
  /\ fprimary.v = Obj1("message", Obj1("content", JStr(ScenarioAText)))
  /\ nChat = 1

\* C9: when window.puter is not set at the call of ai.feedback,
\* puter.ai.chat is never called in that call (also when the bridge loads
\* later), and the request to Ollama is sent in the same step, with no
\* puter.fs.read before it.
C9_UnavailableGoesToSecondary ==
  fpath = "unavailable" =>
    /\ nChat = 0 /\ fprimary.kind = "none"
    /\ nOllama >= 1
    /\ nFsRead = 0

\* C9 witness: the call found no bridge, the bridge loaded afterwards, and
\* the call settled
C9_Witness ==
  /\ fpath = "unavailable" /\ puter /\ Settled
  /\ nOllama >= 1

\* s has sub as a contiguous part
Contains(s, sub) ==
  \E i \in 0..(Len(s) - Len(sub)) : SubSeq(s, i + 1, i + Len(sub)) = sub

\* the text the file read gave to the call: none when it threw or returned
\* nothing
Retrieved == IF fileText = None THEN <<>> ELSE fileText.s

\* C10: on the secondary path, once the outcome of the file read is known a
\* request to Ollama has been sent, whatever the outcome; every request
\* carries a prompt that contains the caller's message; the characters of
\* the file in the prompt are a prefix of the retrieved text of at most 6000
\* characters.
C10_ReadFailureNonFatal ==
  /\ (OnSecondaryPath /\ fpc # "read") => nOllama >= 1
  /\ fpc = "fetch" =>
       LET prompt == ollamaReq.prompt
           chars == SelectSeq(prompt, IsFileChar)
       IN /\ Contains(prompt, fargs.message)
          /\ Len(chars) <= SliceLimit
          /\ chars = SubSeq(Retrieved, 1, Len(chars))

\* C10 witness: puter.ai.chat threw, puter.fs.read threw, and the request to
\* Ollama is out with the message in its prompt
C10_Witness ==
  /\ fpath = "threw" /\ fpc = "fetch" /\ ftry = "catch"
  /\ nFsRead = 1 /\ nOllama = 1
  /\ Contains(ollamaReq.prompt, fargs.message)

\* the submission got a non-JSON reply text from Ollama after puter.ai.chat
\* threw, and its second kv.set stored the record
C6_Case ==
  /\ hpc \in {"timer", "done"}
  /\ fprimary.kind = "threw"
  /\ fdata # None /\ ~ParsedReply(fdata).ok
  /\ kvLog # <<>> /\ kvLog[Len(kvLog)].write = "final"

\* feedback of the record persisted under resume:<id>
PersistedFeedback ==
  Get(JSONparse(kv[KvKey(Get(hdata, "id").s[1].w)]).v, "feedback")

\* C6 (as claimed): in that case the persisted feedback equals the fixed
\* default record, the same value for every such submission.
C6_PersistedIsFixedDefault == C6_Case => PersistedFeedback = FallbackParsed

\* C6 (amended): in that case the persisted feedback is the fixed default
\* record in every field of it (overallScore 65, the non-JSON tip, the four
\* blocks) plus an id, the value crypto.randomUUID() returned in that call.
C6_PersistedIsDefaultPlusId ==
  C6_Case =>
    /\ PersistedFeedback.t = "obj"
    /\ DOMAIN PersistedFeedback.o = DOMAIN FallbackParsed.o \cup {"id"}
    /\ \A k \in DOMAIN FallbackParsed.o : PersistedFeedback.o[k] = FallbackParsed.o[k]
    /\ PersistedFeedback.o["id"] \in {JStr(Prose(u)) : u \in UUIDs}

\* C6 witness: the reply text was prose and the record was persisted with the
\* default record as feedback
C6_Witness ==
  /\ C6_Case
  /\ fdata = Obj1("response", JStr(NotJsonText))
  /\ Get(PersistedFeedback, "overallScore") = JNum(65)

(***************************************************************************)
(* Properties of handleAnalyze                                             *)
(***************************************************************************)
\* x occurs in the sequence s
InSeq(s, x) == \E i \in 1..Len(s) : s[i] = x

\* the position of the first x in s, 0 when there is none
Pos(s, x) == IF InSeq(s, x) THEN CHOOSE i \in 1..Len(s) : s[i] = x /\ \A j \in 1..(i - 1) : s[j] # x
             ELSE 0

\* handleAnalyze has returned
FlowEnded == hpc \in {"timer", "done"}

\* the values passed to the second kv.set of the submission
FinalWrites ==
  {kvLog[i].value : i \in {j \in 1..Len(kvLog) : kvLog[j].write = "final"}}
  \cup (IF kvPending # None /\ kvPending.write = "final" THEN {kvPending.value} ELSE {})

\* a ScoreBlock: an object whose score, when there, is a number and whose
\* tips, when there, are a list
IsScoreBlock(v) ==
  /\ v.t = "obj"
  /\ Has(v, "score") => v.o["score"].t = "num"
  /\ Has(v, "tips") => v.o["tips"].t = "arr"

\* a well-formed FeedbackRecord: every field optional, the ones there of
\* their type
WellFormedRecord(v) ==
  /\ v.t = "obj"
  /\ Has(v, "overallScore") => v.o["overallScore"].t = "num"
  /\ Has(v, "tips") => v.o["tips"].t = "arr"
  /\ \A c \in Categories \cup {"ATS"} : Has(v, c) => IsScoreBlock(v.o[c])

\* the shape of a reply of puter.ai.chat: an object carrying message
ProviderNative(v) == Has(v, "message")

\* C11 (as claimed): in every final write the feedback of the record is a
\* well-formed FeedbackRecord or a non-empty string, and never an object of
\* the provider's reply shape.
C11_FinalFeedbackIsCanonical ==
  \A value \in FinalWrites :
    LET fb == Get(JSONparse(value).v, "feedback")
    IN /\ WellFormedRecord(fb) \/ (fb.t = "str" /\ fb.s # <<>>)
       /\ ~ProviderNative(fb)

\* in hlog, step a is there and comes before step b
Before(a, b) == 0 < Pos(hlog, a) /\ Pos(hlog, a) < Pos(hlog, b)

\* a submission is under way or over
Submitted == hpc # "idle"

\* C12: in a submission a provider is invoked only in the AI stage; the AI
\* stage starts only after the upload of the PDF and the upload of the image
\* each returned a path and after the first kv.set has returned; the second
\* kv.set is called only after the first has returned and after ai.feedback
\* has returned.
C12_StepsOrdered ==
  /\ (Submitted /\ nChat + nOllama > 0) => InSeq(hlog, "ai_call")
  /\ InSeq(hlog, "ai_call") =>
       /\ Before("pdf_uploaded", "ai_call") /\ ~Falsy(Get(hpdf, "path"))
       /\ Before("img_uploaded", "ai_call") /\ ~Falsy(Get(hdata, "imagePath"))
       /\ Before("kv_placeholder_call", "kv_placeholder_done")
       /\ Before("kv_placeholder_done", "ai_call")
  /\ InSeq(hlog, "kv_final_call") =>
       /\ Before("kv_placeholder_done", "kv_final_call")
       /\ Before("ai_call", "ai_returned")
       /\ Before("ai_returned", "kv_final_call")

\* C12 witness: a submission went through all its steps
C12_Witness ==
  /\ hpc = "done" /\ route # "/upload"
  /\ InSeq(hlog, "kv_final_done")
  /\ nChat + nOllama > 0

\* the key of the submission's record
RecordKey == KvKey(Get(hdata, "id").s[1].w)

\* what a read of the key returns, parsed; Undef when nothing is stored
StoredRecord ==
  IF hdata # None /\ RecordKey \in DOMAIN kv THEN JSONparse(kv[RecordKey]).v ELSE Undef

\* a structurally valid ResumeRecord: the six text fields and a feedback
ValidResumeRecord(v) ==
  /\ v.t = "obj"
  /\ \A k \in {"id", "resumePath", "imagePath", "companyName", "jobTitle", "jobDescription"} :
       Get(v, k).t = "str"
  /\ Has(v, "feedback")

\* the record the first kv.set is given
IsPlaceholder(v) == v = hdata /\ Get(v, "feedback") = JStr(<<>>)

\* C13 (as claimed): from the start of the AI stage on, whether it runs, has
\* failed or the record was finalized, a read of resume:<id> returns a
\* structurally valid ResumeRecord.
C13_RecordReadableFromAIStage ==
  InSeq(hlog, "ai_call") => ValidResumeRecord(StoredRecord)

\* the AI stage of the submission failed: ai.feedback threw, or returned
\* something handleAnalyze gives up on
AIStageFailed ==
  /\ hpc = "done"
  /\ hlog # <<>> /\ hlog[Len(hlog)] \in {"ai_threw", "ai_returned"}
  /\ statusText \in {Prose("Error: Something went wrong during analysis."),
                     Prose("Error: Failed to get feedback from AI."),
                     Prose("Error: AI returned empty feedback."),
                     Prose("Error: AI response was not valid JSON.")}

\* C14 (as claimed): when the AI stage failed there is no second kv.set and
\* the value stored at resume:<id> is the placeholder record, feedback "".
C14_FailureKeepsPlaceholder ==
  AIStageFailed =>
    /\ ~InSeq(hlog, "kv_final_call") /\ FinalWrites = {}
    /\ IsPlaceholder(StoredRecord)

\* the number of times x occurs in s
Count(s, x) == Cardinality({i \in 1..Len(s) : s[i] = x})

\* C15 (as claimed): the stored value moves absent -> placeholder -> final
\* only: at most one placeholder kv.set and one final kv.set are called, the
\* placeholder first, under one key; what was stored is nothing, the
\* placeholder, or the placeholder and then the final record; nothing is
\* written after the final write.
C15_PlaceholderThenFinal ==
  /\ Count(hlog, "kv_placeholder_call") <= 1 /\ Count(hlog, "kv_final_call") <= 1
  /\ InSeq(hlog, "kv_final_call") => Before("kv_placeholder_call", "kv_final_call")
  /\ \A i \in 1..Len(kvLog) : kvLog[i].key = RecordKey
  /\ kvPending # None => kvPending.key = RecordKey
  /\ \/ kvLog = <<>> /\ DOMAIN kv = {}
     \/ /\ Len(kvLog) = 1 /\ kvLog[1].write = "placeholder"
        /\ DOMAIN kv = {RecordKey} /\ kv[RecordKey] = kvLog[1].value
        /\ IsPlaceholder(StoredRecord) \/ InSeq(hlog, "ai_returned")
     \/ /\ Len(kvLog) = 2 /\ kvLog[1].write = "placeholder" /\ kvLog[2].write = "final"
        /\ DOMAIN kv = {RecordKey} /\ kv[RecordKey] = kvLog[2].value
        /\ kvPending = None

\* both uploads of the submission returned a path
UploadsOk == ~Falsy(Get(hpdf, "path")) /\ ~Falsy(Get(hdata, "imagePath"))

\* C16: as long as the upload of the PDF, the conversion or the upload of
\* the image has not given a path (it failed, or is still under way), no
\* kv.set is called and no provider is invoked; a stage that gives no path or
\* no image file ends the flow there.
C16_UploadFailureStopsFlow ==
  /\ (Submitted /\ ~UploadsOk) =>
       /\ kvPending = None /\ kvLog = <<>> /\ DOMAIN kv = {}
       /\ ~InSeq(hlog, "kv_placeholder_call") /\ ~InSeq(hlog, "kv_final_call")
       /\ ~InSeq(hlog, "ai_call") /\ nChat = 0 /\ nOllama = 0
  /\ hpc \in {"convert", "upload_img"} => ~Falsy(Get(hpdf, "path"))
  /\ hpc = "upload_img" => InSeq(hlog, "converted")

\* C16 witness: the PDF was uploaded and converted, the upload of the image
\* returned no path, and the flow has ended
C16_Witness ==
  /\ hpc = "done" /\ InSeq(hlog, "converted") /\ ~UploadsOk
  /\ statusText = Prose("Error: Failed to upload image.")

\* the submission has ended in a failure
SubmissionFailed ==
  hpc = "done" /\ statusText # Prose("Analysis complete. Redirecting...")

\* the status strings handleAnalyze sets for a failed stage
StageErrors ==
  { Prose("Error: Failed to upload PDF."),
    Prose("Error: Failed to convert PDF to image."),
    Prose("PDF could not be rendered"),
    Prose("Error: Failed to upload image."),
    Prose("Error: Failed to get feedback from AI."),
    Prose("Error: AI returned empty feedback."),
    Prose("Error: AI response was not valid JSON."),
    Prose("Error: Something went wrong during analysis.") }

\* C17 (as claimed): once a failed submission has ended, the page shows the
\* error status string set for the stage that failed.
C17_ErrorStatusShown ==
  SubmissionFailed => (statusText \in StageErrors /\ PageHeading = statusText)

(***************************************************************************)
(* Properties of the three asynchronous stage functions                    *)
(***************************************************************************)
\* the messages loadResume sets
LoadErrors == {NoRecordError, PdfError, ImageError, LoadFailedError}

\* handleAnalyze has ended: processing is over, and unless the analysis
\* completed the status is one of the stage error strings
HandleAnalyzeSettles ==
  /\ hpc \in {"timer", "done"} => ~isProcessing
  /\ SubmissionFailed => statusText \in StageErrors
  /\ InSeq(hlog, "ai_threw") =>
       (hpc = "done" /\ statusText = Prose("Error: Something went wrong during analysis."))

\* loadResume has ended on a page still mounted: loading is over, and either
\* one of its messages is set or the record read is the page's resumeData
LoadResumeSettles ==
  (vpc = "done" /\ ~cancelled) =>
    /\ ~pageLoading
    /\ \/ verror \in LoadErrors
       \/ verror = "" /\ resumeData # JNull /\ resumeData = vdata

ReplyParses == rIn # None /\ ParsedReply(rIn).ok
Parsed == ParsedReply(rIn).v

\* C3 (as claimed): the record ollamaFeedback builds from a 2xx reply has an
\* overallScore that is present (not null, not undefined) and at least one
\* of the four category blocks present.
C3_RecordHasScores ==
  rOut # None =>
    /\ Present(Get(rOut, "overallScore"))
    /\ \E c \in Categories : Present(Get(rOut, c))

\* C4 (as claimed): when the reply text parses, each category of the record
\* has the reply's score for it when the reply gives one and 70 otherwise,
\* the reply's tips for it when it gives them and an empty list otherwise;
\* overallScore is the reply's when given and 70 otherwise.  (The code
\* defaults whole blocks only, and its spread puts a null of the reply back
\* over the default.)
C4_FieldDefaults ==
  (rOut # None /\ ReplyParses) =>
    /\ \A c \in Categories :
         LET given == Get(Parsed, c)
         IN /\ Get(Get(rOut, c), "score") =
                 IF Present(Get(given, "score")) THEN Get(given, "score")
                 ELSE JNum(DefaultScore)
            /\ Get(Get(rOut, c), "tips") =
                 IF Present(Get(given, "tips")) THEN Get(given, "tips")
                 ELSE JArr(<<>>)
    /\ Get(rOut, "overallScore") =
         IF Present(Get(Parsed, "overallScore")) THEN Get(Parsed, "overallScore")
         ELSE JNum(DefaultScore)

\* the record is the safe default: overallScore 65, exactly one top-level
\* tip, the one that says the model returned non-JSON output, and in every
\* category one tip and a score from 60 to 70
IsSafeDefault(v) ==
  /\ v.t = "obj"
  /\ Get(v, "overallScore") = JNum(65)
  /\ Get(v, "tips") = JArr(<<Tip("improve", NonJsonTip)>>)
  /\ \A c \in Categories :
       /\ Get(Get(v, c), "score").t = "num"
       /\ Get(Get(v, c), "score").n \in 60..70
       /\ Get(Get(v, c), "tips").t = "arr"
       /\ Len(Get(Get(v, c), "tips").a) = 1

\* C5: when the reply text cannot be parsed as JSON (the response field
\* missing, empty or no string included) the record is the safe default.
C5_UnparseableGivesDefault ==
  (rOut # None /\ ~ReplyParses) => IsSafeDefault(rOut)

\* C5 witness: the reply text is prose, the record was built
C5_Witness ==
  /\ rIn = Obj1("response", JStr(NotJsonText))
  /\ rOut # None
  /\ IsSafeDefault(rOut)

(***************************************************************************)
(* Properties of normalizeFeedback                                         *)
(***************************************************************************)
\* x is object-shaped: typeof x is "object" and x is not null
ObjectShaped(x) == x.t \in {"obj", "arr"}

\* C19 (as claimed): for every object-shaped x, nested feedback fields
\* included, normalizing the result of normalizeFeedback(x) again gives the
\* same result, for both normalizeFeedback.
C19_Idempotent ==
  (nTwice # None /\ ObjectShaped(nIn)) => nTwice = nOnce

\* r, a result of normalizeFeedback, still carries an object under feedback
StillWrapped(r) ==
  r.t = "obj" /\ Has(r, "feedback") /\ Get(r, "feedback").t \in {"obj", "arr"}

\* C19 (amended): for every object-shaped x whose normalized result carries
\* no object under its feedback key (x is wrapped at most one level deep)
\* normalizing the result again gives the same result; when the result
\* still carries an object under feedback, the second application returns
\* that nested object, reconciled: one more level is unwrapped.
C19_IdempotentOnceUnwrapped ==
  (nTwice # None /\ ObjectShaped(nIn)) =>
    \A r \in {"a", "b"} :
      IF StillWrapped(nOnce[r])
        THEN nTwice[r] = Reconcile(Get(nOnce[r], "feedback")) /\ nTwice[r] # nOnce[r]
        ELSE nTwice[r] = nOnce[r]

\* C19 witness: an object with tone_and_style wrapped one level deep was
\* normalized twice, with the same result
C19_Witness ==
  /\ nIn = Obj1("feedback", Obj1("tone_and_style", Block(JNum(60), JArr(<<>>))))
  /\ nTwice # None
  /\ nTwice = nOnce
  /\ Has(nOnce.a, "toneAndStyle")

\* x is what the feedback of a valid ResumeRecord may be: an object or a
\* string, the empty one included
RecordFeedback(x) == x.t \in {"obj", "str"}

\* C20: for every feedback of a valid ResumeRecord, normalizing its JSON
\* serialization gives what normalizing the feedback itself gives, for both
\* normalizeFeedback.
C20_SerializationStable ==
  (nSer # None /\ nOnce # None /\ RecordFeedback(nIn)) => nSer = nOnce

\* C20 witness: a raw string that is no JSON, and its serialization, were
\* normalized: the first normalizeFeedback returns the string both times
C20_Witness ==
  /\ nIn = JStr(NotJsonText)
  /\ nSer # None /\ nOnce # None
  /\ nSer.a = nIn /\ nOnce.a = nIn /\ nSer.b = JNull

\* k is set in x: present and neither null nor undefined
IsSet(x, k) == ~Nullish(Get(x, k))

\* normalizeFeedback was given an object
NormalizedObject == nOnce # None /\ nIn.t = "obj"

\* C21 (as claimed): for every object with tone_and_style set and
\* toneAndStyle unset, the record normalizeFeedback returns has toneAndStyle
\* equal to the original tone_and_style and still has tone_and_style.
C21_AliasCopied ==
  (NormalizedObject /\ IsSet(nIn, "tone_and_style") /\ ~IsSet(nIn, "toneAndStyle")) =>
    \A r \in {"a", "b"} :
      /\ Get(nOnce[r], "toneAndStyle") = Get(nIn, "tone_and_style")
      /\ Get(nOnce[r], "tone_and_style") = Get(nIn, "tone_and_style")

\* the object the two assignments are made on: the object under feedback
\* when there is one, else the object given
Target(x) ==
  IF Get(x, "feedback").t \in {"obj", "arr"} THEN Get(x, "feedback") ELSE x

\* C21 (amended): the keys are read on the object under feedback when the
\* object given holds one, else on the object given.  When that object has a
\* truthy tone_and_style and its toneAndStyle is absent or falsy, the record
\* returned has toneAndStyle equal to that tone_and_style and still has
\* tone_and_style; otherwise its toneAndStyle is returned as it was.
C21_AliasCopiedOnEffective ==
  NormalizedObject =>
    \A r \in {"a", "b"} :
      LET e == Target(nIn)
      IN /\ Get(nOnce[r], "tone_and_style") = Get(e, "tone_and_style")
         /\ Has(nOnce[r], "tone_and_style") = Has(e, "tone_and_style")
         /\ IF ~Falsy(Get(e, "tone_and_style")) /\ Falsy(Get(e, "toneAndStyle"))
              THEN Get(nOnce[r], "toneAndStyle") = Get(e, "tone_and_style")
              ELSE /\ Get(nOnce[r], "toneAndStyle") = Get(e, "toneAndStyle")
                   /\ Has(nOnce[r], "toneAndStyle") = Has(e, "toneAndStyle")

\* C21 witness: an object with tone_and_style, a null toneAndStyle and no
\* feedback was normalized, and both keys of the result hold the block
C21_Witness ==
  /\ NormalizedObject
  /\ ~Has(nIn, "feedback")
  /\ Get(nIn, "tone_and_style") = Block(JNum(60), JArr(<<SomeTip>>))
  /\ Get(nIn, "toneAndStyle") = JNull
  /\ Get(nOnce.a, "toneAndStyle") = Get(nIn, "tone_and_style")
  /\ Get(nOnce.b, "tone_and_style") = Get(nIn, "tone_and_style")

\* C22: normalizeFeedback never overwrites an overallScore that is set, 0
\* included.  On the object the assignments are made on, a set overallScore
\* is returned as it was, and the result's overallScore differs from it only
\* when it was null or undefined and overall_score was set, which is then
\* the value copied; an object given with both keys set still has its own
\* overallScore after the call.
C22_CanonicalScoreKept ==
  NormalizedObject =>
    \A r \in {"a", "b"} :
      LET e == Target(nIn)
          out == Get(nOnce[r], "overallScore")
      IN /\ IsSet(e, "overallScore") => out = Get(e, "overallScore")
         /\ out # Get(e, "overallScore") =>
              /\ ~IsSet(e, "overallScore")
              /\ IsSet(e, "overall_score")
              /\ out = Get(e, "overall_score")
         /\ (~IsSet(e, "overallScore") /\ IsSet(e, "overall_score")) =>
              out = Get(e, "overall_score")
         /\ (IsSet(nIn, "overallScore") /\ IsSet(nIn, "overall_score")) =>
              Get(nAfter, "overallScore") = Get(nIn, "overallScore")

\* C22 witness: an object with overallScore 0 and overall_score 50 was
\* normalized and the result's overallScore is 0
C22_Witness ==
  /\ NormalizedObject
  /\ ~Has(nIn, "feedback")
  /\ Get(nIn, "overallScore") = JNum(0)
  /\ Get(nIn, "overall_score") = JNum(50)
  /\ Get(nOnce.a, "overallScore") = JNum(0)
  /\ Get(nOnce.b, "overallScore") = JNum(0)

(***************************************************************************)
(* Properties of the viewers                                               *)
(***************************************************************************)
\* the record stored under resume:u1, when what is stored is a JSON text
SavedValue ==
  IF KvKey("u1") \in DOMAIN kv /\ JSONparse(kv[KvKey("u1")]).ok
    THEN JSONparse(kv[KvKey("u1")]).v
    ELSE Undef

\* the feedback of the record stored under resume:u1
SavedFeedback == Get(SavedValue, "feedback")

\* the fields of a Feedback the pages read
FeedbackFields ==
  {"overallScore", "ATS", "content", "skills", "structure", "toneAndStyle", "tips"}

\* load has ended and set data
loadSetData == lpc = "done" /\ ldata # JNull

\* C23 (as claimed): every key of a persisted feedback object that is no
\* recognized field is present, with the same value, in the feedback the
\* first viewer holds once load has normalized it.
C23_PassThrough ==
  (loadSetData /\ SavedFeedback.t = "obj") =>
    \A k \in DOMAIN SavedFeedback.o \ FeedbackFields :
      /\ Has(Get(ldata, "feedback"), k)
      /\ Get(Get(ldata, "feedback"), k) = SavedFeedback.o[k]

\* the number of feedback levels an object is wrapped in
RECURSIVE Levels(_)
Levels(v) ==
  IF Get(v, "feedback").t = "obj" THEN 1 + Levels(Get(v, "feedback")) ELSE 0

\* the record inside every feedback level
RECURSIVE Innermost(_)
Innermost(v) ==
  IF Get(v, "feedback").t = "obj" THEN Innermost(Get(v, "feedback")) ELSE v

\* the persisted feedback is an object wrapped in one or in two levels
WrappedOnceOrTwice == SavedFeedback.t = "obj" /\ Levels(SavedFeedback) \in {1, 2}

\* loadResume has ended and set resumeData and feedback
loadResumeSetData == vpc = "done" /\ resumeData # JNull

\* the first viewer holds the innermost record of the persisted feedback
loadShowsInnermost ==
  (loadSetData /\ WrappedOnceOrTwice) =>
    Get(ldata, "feedback") = Reconcile(Innermost(SavedFeedback))

\* C24 (as claimed): a persisted feedback wrapped in one or in two feedback
\* levels ends up as the innermost record in the feedback each viewer holds,
\* the viewer normalizing again after the first call.
C24_ViewersShowInnermost ==
  /\ loadShowsInnermost
  /\ (loadResumeSetData /\ WrappedOnceOrTwice) =>
       vfeedback = Reconcile(Innermost(SavedFeedback))

(***************************************************************************)
(* Properties of extractFeedbackText                                       *)
(***************************************************************************)
\* message.content of the reply given
MessageContent == Get(Get(eIn, "message"), "content")

\* the text of the first element of message.content
FirstText == Get(First(MessageContent), "text")

\* C25: extractFeedbackText returns a string for every reply, by this
\* precedence: a string reply as it is; else message.content when it is a
\* string; else the text of the first element of message.content when
\* message.content is a sequence and that text is a string; else the JSON
\* serialization of a reply that is an object; else the empty string.
C25_ExtractPrecedence ==
  eOut # None =>
    /\ eOut.t = "str"
    /\ \A i \in 1..Len(eOut.s) : eOut.s[i].k \in {"p", "s", "n", "l", "w", "ws"}
    /\ eIn.t = "str" => eOut = eIn
    /\ (eIn.t # "str" /\ MessageContent.t = "str") => eOut = MessageContent
    /\ (eIn.t # "str" /\ MessageContent.t = "arr" /\ FirstText.t = "str") =>
         eOut = FirstText
    /\ ( /\ eIn.t \in {"obj", "arr"}
         /\ MessageContent.t # "str"
         /\ ~(MessageContent.t = "arr" /\ FirstText.t = "str") ) =>
         (eOut.s = JSONstringify(eIn) /\ JSONparse(eOut.s).ok /\ JSONparse(eOut.s).v = eIn)
    /\ eIn.t \notin {"str", "obj", "arr"} => eOut = JStr(<<>>)

\* C25 witness: a reply with a record key next to a message whose content
\* is a sequence with a text first was given, and the text was returned
C25_Witness ==
  /\ eIn = JObj(("overallScore" :> JNum(82))
                @@ ("message" :> Obj1("content",
                                      JArr(<<Obj1("text", JStr(ScenarioAText))>>))))
  /\ eOut = JStr(ScenarioAText)

\* C26 (as claimed): in the viewers a load that found no record ends with
\* the message for the record, a load whose PDF could not be read with the
\* message for the PDF, a load whose image could not be read with the
\* message for the image; none of them ends with the generic message.
C26_SpecificMessages ==
  /\ (lpc = "done" /\ lawait = "kv_null") => lerror = NoRecordError
  /\ (vpc = "done" /\ vawait = "kv_null") => verror = NoRecordError
  /\ (vpc = "done" /\ ~cancelled /\ vawait \in {"pdf_nothing", "pdf_threw"}) =>
       verror = PdfError
  /\ (vpc = "done" /\ ~cancelled /\ vawait \in {"img_nothing", "img_threw"}) =>
       verror = ImageError

\* what C26 says of reads that resolve to nothing
ReadNothingIsSpecific ==
  /\ (lpc = "done" /\ lawait = "kv_null") => lerror = NoRecordError
  /\ (vpc = "done" /\ vawait = "kv_null") => verror = NoRecordError
  /\ (vpc = "done" /\ vawait = "pdf_nothing") => verror = PdfError
  /\ (vpc = "done" /\ vawait = "img_nothing") => verror = ImageError

\* the record stored is a placeholder: a ResumeRecord with the empty string
\* as its feedback
SavedIsPlaceholder == ValidResumeRecord(SavedValue) /\ SavedFeedback = JStr(<<>>)

\* loadResume has read the record and both blobs on a page still mounted
loadResumeReadAll == vpc = "done" /\ ~cancelled /\ vawait = "img_blob"

\* C27: when the record stored is the placeholder, with the empty string as
\* its feedback, and loadResume has read it and both blobs, the viewer is no
\* longer loading, holds the record, holds null as its feedback, has no
\* error message and renders the note that feedback is not available.
C27_PlaceholderShownWithoutError ==
  (loadResumeReadAll /\ SavedIsPlaceholder) =>
    /\ ~pageLoading
    /\ resumeData = SavedValue
    /\ vfeedback = JNull
    /\ verror = ""
    /\ FeedbackPanel = "not available"

\* C27 witness: the placeholder was stored and loadResume ended after
\* reading both blobs
C27_Witness ==
  /\ loadResumeReadAll
  /\ SavedIsPlaceholder
  /\ vfeedback = JNull
  /\ FeedbackPanel = "not available"

\* C28 (as claimed): a load made stale by the unmounting of its page runs to
\* its end without any state update: the state of the page stays what it
\* was when the page was unmounted, in both viewers.
C28_StaleLoadUpdatesNothing ==
  /\ (cancelled /\ vsnap # None) => vpage = vsnap
  /\ (~lmounted /\ lsnap # None) => lpage = lsnap

\* what C28 says of the paths of loadResume that test cancelled: its
\* success path and its catch block
GuardedPathsUpdateNothing ==
  (cancelled /\ vsnap # None /\ vawait \notin {"pdf_nothing", "img_nothing"}
     /\ ~(vawait = "kv_null" \/ (vawait = "kv_value" /\ vpc = "done" /\ vdata = None)))
    => vpage = vsnap

(***************************************************************************)
(* Properties of the store's init                                          *)
(***************************************************************************)
\* the callback of the timeout has run: the wait is over
WaitOver == bridgeAtEnd # None

\* the wait ended with window.puter still not set: the polling has
\* stopped, the error is the one of the timeout, and the store is not and
\* never becomes ready, whether or not the bridge loads afterwards
WaitEndsWithoutBridge ==
  (WaitOver /\ bridgeAtEnd = JBool(FALSE)) =>
    /\ ~interval
    /\ store.error = TimeoutError
    /\ ~store.puterReady
    /\ nAuth = 0

\* C29: the wait for the bridge is bounded.  When it ends without the
\* bridge, init has stopped polling, the error of the timeout is set and
\* puterReady stays false ever after; when the bridge appeared before the
\* wait ended, puterReady is set, checkAuthStatus was started, and the
\* error of the timeout is not raised.
C29_BoundedWait ==
  /\ WaitEndsWithoutBridge
  /\ (WaitOver /\ bridgeAtEnd = JBool(TRUE)) =>
       /\ store.puterReady
       /\ nAuth = 1
       /\ store.error # TimeoutError
  /\ (ipc = "called" /\ ~timer /\ ~WaitOver) =>
       /\ store.puterReady
       /\ nAuth = 1

(***************************************************************************)
(* Properties of the two records handleAnalyze writes                      *)
(***************************************************************************)
\* the calls of kv.set of the submission: those that stored their value,
\* then the one that is pending
Writes == kvLog \o (IF kvPending = None THEN <<>> ELSE <<kvPending>>)

\* the record a call of kv.set was given, read back from its string
Written(w) == JSONparse(w.value).v

RecordFields ==
  {"id", "resumePath", "imagePath", "companyName", "jobTitle", "jobDescription"}

\* C30: the final record of a submission differs from its placeholder
\* record in the field feedback only: the six other fields are in both
\* records with the same values, neither record has a further field, and
\* both calls of kv.set use the key built from the id of the record.
C30_OnlyFeedbackDiffers ==
  \A i, j \in DOMAIN Writes :
    (Writes[i].write = "placeholder" /\ Writes[j].write = "final") =>
      LET first == Written(Writes[i])
          final == Written(Writes[j])
      IN /\ first.t = "obj" /\ final.t = "obj"
         /\ DOMAIN first.o = RecordFields \cup {"feedback"}
         /\ DOMAIN final.o \ {"feedback"} = RecordFields
         /\ \A k \in RecordFields : final.o[k] = first.o[k]
         /\ Writes[i].key = Writes[j].key
         /\ Writes[i].key = KvKey(first.o["id"].s[1].w)

\* both records were stored, the final one with an object as feedback
C30_Witness ==
  /\ Len(kvLog) = 2
  /\ kvLog[1].write = "placeholder"
  /\ kvLog[2].write = "final"
  /\ Get(Written(kvLog[1]), "feedback") = JStr(<<>>)
  /\ Get(Written(kvLog[2]), "feedback").t = "obj"
  /\ hpc = "done"

(***************************************************************************)
(* Properties of the two normalizeFeedback, compared                       *)
(***************************************************************************)
\* typeof v is "object" and v is not null, or typeof v is "string"
ObjectOrString(v) == v.t \in {"obj", "arr", "blob", "str"}

\* C32: the normalizeFeedback of the first viewer returns, for every
\* input, an object or a string: never a number, a boolean or null.
C32_ObjectOrString ==
  nOnce # None => ObjectOrString(nOnce.a)

\* what holds of it: it never returns null or undefined
NeverNullish ==
  /\ nOnce # None => ~Nullish(nOnce.a)
  /\ nSer # None => ~Nullish(nSer.a)

\* the results a and b of the two normalizeFeedback for one input are
\* related: b is a when a is an object, and null otherwise
Related(r) ==
  IF r.a.t \in {"obj", "arr", "blob"} THEN r.b = r.a ELSE r.b = JNull

\* C33: for every input the null-returning normalizeFeedback returns what
\* the string-preserving one returns whenever that is an object, and null
\* in every other case (falsy input, string that does not parse, value
\* that parses to a primitive).
C33_NormalizersRelated ==
  /\ nOnce # None => Related(nOnce)
  /\ nSer # None => Related(nSer)

\* a string that parses to an object with an alternate key: both return
\* the object, with the canonical key set
C33_Witness ==
  /\ nOnce # None
  /\ nIn.t = "str"
  /\ nOnce.a.t = "obj"
  /\ nOnce.b = nOnce.a
  /\ Get(nOnce.a, "overallScore") = JNum(50)

(***************************************************************************)
(* Properties of the viewers when the id of the route changes              *)
(***************************************************************************)
\* the record stored under resume:<id>, undefined when there is none
StoredUnder(id) ==
  IF KvKey(id) \in DOMAIN kv /\ JSONparse(kv[KvKey(id)]).ok
    THEN JSONparse(kv[KvKey(id)]).v
    ELSE Undef

\* the second viewer is the page of the location and renders feedback
ViewerDisplays ==
  /\ vpc # "unmounted" /\ ~cancelled
  /\ route = "/resume/" \o vid
  /\ ~pageLoading
  /\ ~Falsy(vfeedback)

\* the first viewer is the page of the location and renders data
loadDisplays ==
  /\ lmounted
  /\ route = "/resume/" \o lid
  /\ ~loading
  /\ ldata # JNull

\* C31: whenever a viewer is not loading and displays feedback or record
\* data, these come from the record stored under the id of the route; in
\* particular, after a change of id whose load ends in an error or without
\* feedback, nothing of the record loaded before is displayed.
C31_DisplayedIsOfCurrentId ==
  /\ ViewerDisplays =>
       /\ StoredUnder(vid) # Undef
       /\ vfeedback = normalizeFeedbackB(Get(StoredUnder(vid), "feedback"))
       /\ resumeData = DataAfter(StoredUnder(vid))
  /\ loadDisplays =>
       /\ StoredUnder(lid) # Undef
       /\ ldata = WithFeedback(StoredUnder(lid),
                               loadFeedback(Get(StoredUnder(lid), "feedback")))

(***************************************************************************)
(* Properties of the wrappers of the store                                 *)
(***************************************************************************)
\* the store as setError("Puter.js not available") leaves it
NotAvailableState(st) ==
  /\ st.error = NotAvailable
  /\ st.isLoading = FALSE
  /\ st.user = NoUser
  /\ st.isAuthenticated = FALSE

\* C34: a wrapper called while window.puter is not set returns undefined,
\* does not call the bridge, and leaves the store with the error
\* "Puter.js not available", isLoading false, no user and not
\* authenticated; so does the readFile that ai.feedback calls when it finds
\* no bridge, before its request to Ollama.
C34_UnavailableWrappers ==
  /\ (wlast # None /\ ~wlast.puter) =>
       /\ ~wlast.bridge
       /\ wlast.returned = "undefined"
       /\ wlast.set # None
       /\ NotAvailableState(wlast.set)
  /\ fpath = "unavailable" =>
       /\ nReadFile = 1
       /\ nFsRead = 0
       /\ NotAvailableState(store)

\* a wrapper was called without the bridge while the store was still
\* loading, and ai.feedback, called without the bridge too, has settled
C34_Witness ==
  /\ wlast # None /\ ~wlast.puter
  /\ wlast.name = "kv.flush"
  /\ fpath = "unavailable" /\ fpc = "settled"
  /\ nOllama >= 1

(***************************************************************************)
(* Properties of the store under its auth operations                       *)
(***************************************************************************)
\* C35: in every reachable state of the store, whatever the order of init,
\* checkAuthStatus, signIn, signOut, refreshUser and the wrappers, an
\* error that is not null comes with isAuthenticated false and no user.
C35_ErrorMeansSignedOut ==
  store.error # NoError =>
    /\ store.isAuthenticated = FALSE
    /\ store.user = NoUser

\* what holds: as long as init has started no checkAuthStatus, so that
\* the operations a page calls run one at a time, an error comes with no
\* user
ErrorMeansSignedOutAlone ==
  (store.error # NoError /\ nAuth = 0) =>
    /\ store.isAuthenticated = FALSE
    /\ store.user = NoUser

(***************************************************************************)
(* Properties of the redirect to the Auth page and back                    *)
(***************************************************************************)
\* the viewer has sent its visitor to the Auth page, which has not
\* navigated since
RedirectedToAuth == route = "/auth" /\ vpc # "unmounted" /\ authNav = None

\* C36: the viewer sends a visitor who is not signed in, once the store
\* has finished loading, to /auth with next = /resume/<id>.  The Auth page
\* navigates only with puterReady true, isLoading false and
\* isAuthenticated true; its target is the value of next when that starts
\* with "/", and "/" otherwise, so it always starts with "/"; and a
\* visitor the viewer sent is taken back to /resume/<id>.
C36_AuthRoundTrip ==
  /\ RedirectedToAuth =>
       /\ cancelled
       /\ SearchParam(search) = JStr(ResumePath(vid))
  /\ authNav # None =>
       LET value == SearchParam(authNav.written)
           startsWithSlash == value # JNull /\ value.s # <<>> /\ value.s[1] = "/"
       IN /\ authNav.store.puterReady
          /\ ~authNav.store.isLoading
          /\ authNav.store.isAuthenticated
          /\ authNav.target = IF startsWithSlash THEN value.s ELSE <<"/">>
          /\ authNav.target[1] = "/"
          /\ (vpc # "unmounted" /\ cancelled) =>
               /\ authNav.target = ResumePath(vid)
               /\ route = "/resume/" \o vid

\* the visitor of /resume/u1 was sent to /auth, a user signed in, and the
\* Auth page has taken the visitor back to /resume/u1
C36_Witness ==
  /\ authNav # None
  /\ vpc # "unmounted" /\ cancelled /\ vid = "u1"
  /\ SearchParam(authNav.written) = JStr(ResumePath("u1"))
  /\ authNav.target = ResumePath("u1")
  /\ route = "/resume/u1"
  /\ store.user = SomeUser

====
